---- MODULE Spec2Model ----
(***************************************************************************)
(* A model of the capability-scoped execution engine of                    *)
(* src/tools/log-analysis/execute_code.py: execute_code, timeout_handler,  *)
(* create_safe_import, create_execution_globals and set_memory_limit,      *)
(* together with the process-wide state they touch (sys.stdout/sys.stderr, *)
(* the SIGALRM handler and alarm, RLIMIT_AS, sys.path, module attributes); *)
(* of the skill store of src/tools/log-analysis/skills.py: save_skill,     *)
(* list_skills, get_skill, run_skill, delete_skill and update_skill; and   *)
(* of write_file and create_directory of src/tools/log-analysis/           *)
(* workspace.py, which write beneath the same workspace root.              *)
(*                                                                         *)
(* Text is a sequence of one-character strings; an error message is a      *)
(* sequence of message fragments.  A snippet is a sequence of statements   *)
(* of a small statement language that covers what the engine reacts to:    *)
(* printing, importing, raising, looping, binding top-level names,         *)
(* defining and calling functions, and setting/reading module attributes.  *)
(***************************************************************************)
EXTENDS Integers, Sequences, FiniteSets, TLC

(***************************************************************************)
(* Bounds of the model.                                                    *)
(***************************************************************************)
\* the latest time (in clock ticks) datetime.now() returns
MaxClock == 2
\* the largest timeout (in clock ticks) a request is made with
MaxTimeout == 2
\* the largest max_output a request is made with
MaxOutput == 3
\* the number of execute_code calls a thread makes one after the other
MaxCalls == 2
\* the largest trailing version component update_skill is asked to raise
MaxVersion == 2
\* the number of skills the store holds at most
MaxSkills == 2

Threads == {"main", "worker"}
MainThread == "main"

(***************************************************************************)
(* Security configuration (execute_code.py lines 47-122).                  *)
(***************************************************************************)
MAX_MEMORY_BYTES == 256 * 1024 * 1024

ALLOWED_IMPORTS ==
  { "log_store", "privacy", "workspace",
    "json", "re", "math", "datetime", "collections", "itertools",
    "functools", "operator", "string", "textwrap", "unicodedata",
    "statistics", "random", "hashlib", "base64", "copy", "pprint", "enum",
    "dataclasses", "typing", "time", "csv" }

RESTRICTED_BUILTINS ==
  { "abs", "all", "any", "ascii", "bin", "bool", "bytearray", "bytes",
    "callable", "chr", "classmethod", "complex", "dict", "dir", "divmod",
    "enumerate", "filter", "float", "format", "frozenset", "getattr",
    "hasattr", "hash", "hex", "id", "int", "isinstance", "issubclass",
    "iter", "len", "list", "map", "max", "min", "next", "object", "oct",
    "ord", "pow", "print", "property", "range", "repr", "reversed", "round",
    "set", "setattr", "slice", "sorted", "staticmethod", "str", "sum",
    "super", "tuple", "type", "vars", "zip",
    "Exception", "BaseException", "ValueError", "TypeError", "KeyError",
    "IndexError", "AttributeError", "RuntimeError", "StopIteration",
    "None", "True", "False" }

BLOCKED_BUILTINS ==
  { "open", "exec", "eval", "compile", "__import__", "input", "breakpoint",
    "globals", "locals", "memoryview" }

\* the sandbox tool modules create_execution_globals pre-imports
SandboxTools == {"log_store", "privacy", "workspace"}

\* the directory TOOLS_PATH names (execute_code.py line 337)
ToolsPath == "/home/runner/tools"

(***************************************************************************)
(* Python values the model needs.                                          *)
(***************************************************************************)
Min(a, b) == IF a < b THEN a ELSE b
Max(a, b) == IF a > b THEN a ELSE b
Range(s) == { s[i] : i \in 1..Len(s) }

\* s[:n] of Python: the first n items, or all but the last -n when n < 0
Slice(s, n) ==
  IF n >= 0 THEN SubSeq(s, 1, Min(n, Len(s)))
  ELSE SubSeq(s, 1, Max(0, Len(s) + n))

\* the text print(x) writes: str(x) and a newline
PrintText(chars) == chars \o <<"\n">>

\* the class each exception class derives from
ExcParent(kind) ==
  CASE kind = "BaseException" -> "object"
    [] kind = "Exception" -> "BaseException"
    [] kind = "TimeoutError" -> "OSError"
    [] kind = "ModuleNotFoundError" -> "ImportError"
    [] kind \in {"KeyError", "IndexError"} -> "LookupError"
    [] OTHER -> "Exception"

\* isinstance(e, base) for an exception of class kind
RECURSIVE IsInstance(_, _)
IsInstance(kind, base) ==
  IF kind = base THEN TRUE
  ELSE IF kind \in {"object", "none"} THEN FALSE
  ELSE IsInstance(ExcParent(kind), base)

NoExc == [kind |-> "none", msg |-> <<>>]
Exc(kind, msg) == [kind |-> kind, msg |-> msg]

\* '.'.join(parts): the dotted module name
RECURSIVE Dotted(_)
Dotted(parts) ==
  IF Len(parts) = 0 THEN ""
  ELSE IF Len(parts) = 1 THEN parts[1]
  ELSE parts[1] \o "." \o Dotted(Tail(parts))

(***************************************************************************)
(* The values of the code argument.                                        *)
(***************************************************************************)
PyCode(type, val, ws, stmts, parses) ==
  [type |-> type, val |-> val, ws |-> ws, stmts |-> stmts, parses |-> parses]

PyNone == PyCode("NoneType", 0, 0, <<>>, TRUE)
PyInt(n) == PyCode("int", n, 0, <<>>, TRUE)
\* a str of ws whitespace characters around the statements stmts
PyStr(ws, stmts) == PyCode("str", 0, ws, stmts, TRUE)
\* a str whose line after stmts does not parse
PyStrBad(stmts) == PyCode("str", 0, 0, stmts, FALSE)
PyBytes(stmts) == PyCode("bytes", 0, 0, stmts, TRUE)

\* the lines of a str or bytes that are not blank
TextLines(code) == Len(code.stmts) + (IF code.parses THEN 0 ELSE 1)

\* bool(code)
Truthy(code) ==
  CASE code.type = "NoneType" -> FALSE
    [] code.type = "int" -> code.val # 0
    [] OTHER -> code.ws + TextLines(code) > 0

\* hasattr(code, 'strip')
HasStrip(code) == code.type \in {"str", "bytes"}

\* code.strip() is empty
StripsToEmpty(code) == TextLines(code) = 0

(***************************************************************************)
(* Statements of a snippet.                                                *)
(* guarded: the statement is wrapped in  try: ... except Exception: pass   *)
(***************************************************************************)
Stmt(op, arg, guarded) == [op |-> op, arg |-> arg, guarded |-> guarded]

SPrint == Stmt("print", <<"a">>, FALSE)                \* print("a")
SImport(parts) == Stmt("import", parts, FALSE)         \* import a.b
SImportGuarded(parts) == Stmt("import", parts, TRUE)
SRaise(kind) == Stmt("raise", <<kind>>, FALSE)         \* raise Kind("x")
SRaiseGuarded(kind) == Stmt("raise", <<kind>>, TRUE)
\* raise K("x") with K reached through Exception.__subclasses__()
SRaiseReached(kind) == Stmt("raise_reached", <<kind>>, FALSE)
SLoop == Stmt("loop", <<>>, FALSE)                     \* while True: pass
SLoopGuarded == Stmt("loop", <<>>, TRUE)
SAssign == Stmt("assign", <<"x">>, FALSE)              \* x = 1
SDef(ref) == Stmt("def", <<"f", ref>>, FALSE)          \* def f(): return ref
SCall == Stmt("call", <<"f">>, FALSE)                  \* f()
SSetAttr == Stmt("setattr", <<"workspace", "leak">>, FALSE)
SPrintAttr == Stmt("printattr", <<"workspace", "leak">>, FALSE)
SPrintName == Stmt("printname", <<"x">>, FALSE)        \* print(x)

Statements ==
  { SPrint, SLoop, SLoopGuarded, SAssign, SCall, SSetAttr, SPrintAttr,
    SPrintName }
  \cup { SImport(p) : p \in {<<"json">>, <<"socket">>, <<"os", "path">>} }
  \cup { SImportGuarded(<<"socket">>) }
  \cup { SRaise(k) : k \in {"ValueError", "BaseException", "TimeoutError"} }
  \cup { SRaiseGuarded(k) : k \in {"ValueError", "BaseException"} }
  \cup { SRaiseReached("TimeoutError") }
  \cup { SDef(r) : r \in {"x", "json", "workspace"} }

Snippets ==
  { <<s>> : s \in Statements }
  \cup { <<SPrint, s>> : s \in Statements }
  \cup { <<SPrint, SPrint, s>> :
           s \in {SPrint, SLoop, SRaise("ValueError"), SImport(<<"socket">>)} }
  \cup { <<SLoopGuarded, SPrint>>, <<SImportGuarded(<<"socket">>), SPrint>>,
         <<SAssign, SPrintName>>, <<SAssign, SDef("x"), SCall>>,
         <<SImport(<<"json">>), SDef("json"), SCall>>,
         <<SDef("workspace"), SCall>>, <<SDef("x"), SCall>>,
         <<SSetAttr, SPrintAttr>>, <<SRaiseGuarded("ValueError"), SPrint>> }

CodeValues ==
  { PyNone, PyInt(0), PyInt(5), PyStr(0, <<>>), PyStr(2, <<>>),
    PyBytes(<<SPrint>>), PyStrBad(<<SPrint>>) }
  \cup { PyStr(0, p) : p \in Snippets }

\* timeout and max_output arguments: ints, and a float for timeout
PyNum(isInt, val) == [isInt |-> isInt, val |-> val]
TimeoutValues ==
  { PyNum(TRUE, n) : n \in -1..MaxTimeout } \cup { PyNum(FALSE, 1) }
MaxOutputValues == -1..MaxOutput


(***************************************************************************)
(* Safe import mechanism (execute_code.py lines 129-146).                  *)
(***************************************************************************)
\* ', '.join(sorted(allowed_modules))
SortedAllowed ==
  << "base64", "collections", "copy", "csv", "dataclasses", "datetime",
     "enum", "functools", "hashlib", "itertools", "json", "log_store",
     "math", "operator", "pprint", "privacy", "random", "re", "statistics",
     "string", "textwrap", "time", "typing", "unicodedata", "workspace" >>

\* safe_import(name): the exception it raises, NoExc when the import is made.
\* parts is name.split('.'); tools tells whether the tool modules can be found.
safe_import(parts, tools) ==
  LET base_module == parts[1] IN
  IF base_module \notin ALLOWED_IMPORTS
  THEN Exc("ImportError",
           <<"Import of '", Dotted(parts), "' is ", "not allowed",
             ". Allowed modules: ">> \o SortedAllowed)
  ELSE IF base_module \in SandboxTools /\ ~tools
  THEN Exc("ModuleNotFoundError", <<"No module named '", base_module, "'">>)
  ELSE NoExc

(***************************************************************************)
(* The restricted namespace (execute_code.py lines 182-221).               *)
(***************************************************************************)
\* the keys of safe_builtins
SafeBuiltins == RESTRICTED_BUILTINS \cup {"__import__"}

\* the keys of the mapping create_execution_globals returns
create_execution_globals(tools) ==
  {"__builtins__", "__name__", "__doc__"}
  \cup (IF tools THEN SandboxTools ELSE {})

\* sys.path after create_execution_globals(tools_path)
PathWithTools(path, tools_path) ==
  IF tools_path # "" /\ tools_path \notin Range(path)
  THEN <<tools_path>> \o path
  ELSE path

(***************************************************************************)
(* One statement of a snippet, run by exec(code, exec_globals,             *)
(* exec_locals) (execute_code.py line 343).  m is the part of the state a  *)
(* statement reads and writes: the two namespaces, the body of f, the      *)
(* attributes of the process's module objects, the text it writes and the  *)
(* exception it raises.                                                    *)
(***************************************************************************)
\* a name used at the top level: locals, then globals, then builtins
ResolvesAtTop(m, n) == n \in m.locals \cup m.globals \cup SafeBuiltins

\* a name used in a function body: the function's globals are exec_globals
ResolvesInFunction(m, n) == n \in m.globals \cup SafeBuiltins

NameError(n) == Exc("NameError", <<"name '", n, "' is not defined">>)

Effect(m, s, tools) ==
  CASE s.op = "print" -> [m EXCEPT !.emit = PrintText(s.arg)]
    [] s.op = "import" ->
         LET e == safe_import(s.arg, tools) IN
         IF e # NoExc THEN [m EXCEPT !.exc = e]
         ELSE [m EXCEPT !.locals = @ \cup {s.arg[1]}]
    [] s.op = "raise" ->
         IF ResolvesAtTop(m, s.arg[1])
         THEN [m EXCEPT !.exc = Exc(s.arg[1], <<"x">>)]
         ELSE [m EXCEPT !.exc = NameError(s.arg[1])]
    [] s.op = "raise_reached" -> [m EXCEPT !.exc = Exc(s.arg[1], <<"x">>)]
    [] s.op = "assign" -> [m EXCEPT !.locals = @ \cup {s.arg[1]}]
    [] s.op = "def" ->
         [m EXCEPT !.locals = @ \cup {s.arg[1]}, !.fbody = s.arg[2]]
    [] s.op = "call" ->
         IF ~ResolvesAtTop(m, s.arg[1])
         THEN [m EXCEPT !.exc = NameError(s.arg[1])]
         ELSE IF ~ResolvesInFunction(m, m.fbody)
         THEN [m EXCEPT !.exc = NameError(m.fbody)]
         ELSE m
    [] s.op = "setattr" ->
         IF ~ResolvesAtTop(m, s.arg[1])
         THEN [m EXCEPT !.exc = NameError(s.arg[1])]
         ELSE [m EXCEPT !.attrs = @ \cup {<<s.arg[1], s.arg[2]>>}]
    [] s.op = "printattr" ->
         IF ~ResolvesAtTop(m, s.arg[1])
         THEN [m EXCEPT !.exc = NameError(s.arg[1])]
         ELSE [m EXCEPT !.emit =
                 PrintText(IF <<s.arg[1], s.arg[2]>> \in m.attrs
                           THEN <<"T", "r", "u", "e">>
                           ELSE <<"F", "a", "l", "s", "e">>)]
    [] s.op = "printname" ->
         IF ~ResolvesAtTop(m, s.arg[1])
         THEN [m EXCEPT !.exc = NameError(s.arg[1])]
         ELSE [m EXCEPT !.emit = PrintText(<<"1">>)]
    [] OTHER -> m

\* the snippet's own  except Exception: pass  around a guarded statement
Swallows(s, exc) ==
  s.guarded /\ exc # NoExc /\ IsInstance(exc.kind, "Exception")

ExecStmt(m, s, tools) ==
  LET r == Effect(m, s, tools) IN
  IF Swallows(s, r.exc) THEN [r EXCEPT !.exc = NoExc] ELSE r

(***************************************************************************)
(* execute_code's own pure steps.                                          *)
(***************************************************************************)
Envelope(success, output, error, truncated) ==
  [success |-> success, output |-> output, error |-> error,
   truncated |-> truncated]

\* lines 302-316: "run" to go on, "return" with a result, "raise" with exc
validate_input(code) ==
  IF ~Truthy(code)
  THEN [do |-> "return", exc |-> NoExc,
        result |-> Envelope(FALSE, <<>>, <<"No code provided">>, FALSE)]
  ELSE IF ~HasStrip(code)
  THEN [do |-> "raise",
        exc |-> Exc("AttributeError",
                    <<"'", code.type, "' object has no attribute 'strip'">>),
        result |-> Envelope(FALSE, <<>>, <<>>, FALSE)]
  ELSE IF StripsToEmpty(code)
  THEN [do |-> "return", exc |-> NoExc,
        result |-> Envelope(FALSE, <<>>, <<"No code provided">>, FALSE)]
  ELSE IF code.type # "str"
  THEN [do |-> "return", exc |-> NoExc,
        result |-> Envelope(FALSE, <<>>, <<"Code must be a string">>, FALSE)]
  ELSE [do |-> "run", exc |-> NoExc,
        result |-> Envelope(FALSE, <<>>, <<>>, FALSE)]

\* lines 347-360: the except clause that takes exc, "" when none does
ExceptClause(exc) ==
  IF IsInstance(exc.kind, "TimeoutError") THEN "TimeoutError"
  ELSE IF IsInstance(exc.kind, "ImportError") THEN "ImportError"
  ELSE IF IsInstance(exc.kind, "SyntaxError") THEN "SyntaxError"
  ELSE IF IsInstance(exc.kind, "Exception") THEN "Exception"
  ELSE ""

\* lines 347-360: result['error'] as the clause sets it
ErrorText(exc) ==
  CASE ExceptClause(exc) = "TimeoutError" -> exc.msg
    [] ExceptClause(exc) = "ImportError" -> <<"Import error: ">> \o exc.msg
    [] ExceptClause(exc) = "SyntaxError" ->
         <<"Syntax error at line ", exc.msg[1], ": ", exc.msg[2]>>
    [] ExceptClause(exc) = "Exception" -> <<exc.kind, ": ">> \o exc.msg
    [] OTHER -> <<>>

\* line 372: the marker appended to a truncated output
TruncationMarker(max_output) ==
  "\n... [OUTPUT TRUNCATED - exceeded " \o ToString(max_output) \o " chars]"

\* Truncate with the comparison of line 371 off by one
Truncate_OffByOne(output, max_output) ==
  IF Len(output) >= max_output
  THEN [output |-> Slice(output, max_output)
                     \o <<TruncationMarker(max_output)>>,
        truncated |-> TRUE]
  ELSE [output |-> output, truncated |-> FALSE]

\* lines 371-375: the output and the truncated flag
Truncate(output, max_output) ==
  IF Len(output) > max_output
  THEN [output |-> Slice(output, max_output)
                     \o <<TruncationMarker(max_output)>>,
        truncated |-> TRUE]
  ELSE [output |-> output, truncated |-> FALSE]

\* lines 157-158: the exception signal_handler raises
TimeoutErrorOf(seconds) ==
  Exc("TimeoutError",
      <<"Code execution timed out after ", ToString(seconds.val),
        " seconds">>)

\* line 162: the seconds until the alarm signal.alarm(seconds) arms, 0 for
\* none.  alarm() takes an unsigned int: a negative seconds becomes a value
\* of 2^31 or more, which is written here as the largest integer there is.
AlarmOf(seconds) == IF seconds >= 0 THEN seconds ELSE 2147483647

\* lines 172-179: RLIMIT_AS after set_memory_limit(max_bytes)
set_memory_limit(max_bytes) == [limited |-> TRUE, bytes |-> max_bytes]


(***************************************************************************)
(* Python str operations that skills.py and workspace.py apply to names,   *)
(* versions and paths.  A str is a sequence of one-character strings.      *)
(***************************************************************************)
\* c * n
Times(c, n) == [i \in 1..n |-> c]

LowerCase ==
  << "a", "b", "c", "d", "e", "f", "g", "h", "i", "j", "k", "l", "m",
     "n", "o", "p", "q", "r", "s", "t", "u", "v", "w", "x", "y", "z" >>
UpperCase ==
  << "A", "B", "C", "D", "E", "F", "G", "H", "I", "J", "K", "L", "M",
     "N", "O", "P", "Q", "R", "S", "T", "U", "V", "W", "X", "Y", "Z" >>
Digits == << "0", "1", "2", "3", "4", "5", "6", "7", "8", "9" >>
\* the characters of the model in code point order
CodePoints ==
  << " ", "+", "-", ".", "/" >> \o Digits \o UpperCase \o << "_" >> \o LowerCase

IndexIn(s, c) == CHOOSE i \in 1..Len(s) : s[i] = c

\* the characters c.isalnum() holds of
Alphanumeric == Range(LowerCase) \cup Range(UpperCase) \cup Range(Digits)

\* s.isalnum()
isalnum(s) == s # <<>> /\ \A i \in 1..Len(s) : s[i] \in Alphanumeric

\* s.lower()
lower(s) ==
  [i \in 1..Len(s) |->
     IF s[i] \in Range(UpperCase) THEN LowerCase[IndexIn(UpperCase, s[i])]
     ELSE s[i]]

\* s.replace(old, '') for a one-character old
replace(s, old) == SelectSeq(s, LAMBDA c : c # old)

\* s.split(sep) for a one-character sep
RECURSIVE split(_, _)
split(s, sep) ==
  IF sep \notin Range(s) THEN <<s>>
  ELSE LET i == CHOOSE k \in 1..Len(s) :
                  s[k] = sep /\ \A j \in 1..(k - 1) : s[j] # sep
       IN <<SubSeq(s, 1, i - 1)>> \o split(SubSeq(s, i + 1, Len(s)), sep)

\* sep.join(parts)
RECURSIVE join(_, _)
join(parts, sep) ==
  IF parts = <<>> THEN <<>>
  ELSE IF Len(parts) = 1 THEN parts[1]
  ELSE parts[1] \o <<sep>> \o join(Tail(parts), sep)

\* sep.join(names) as message fragments, for names that are whole words
RECURSIVE join_words(_, _)
join_words(names, sep) ==
  IF names = <<>> THEN <<>>
  ELSE IF Len(names) = 1 THEN <<names[1]>>
  ELSE <<names[1], sep>> \o join_words(Tail(names), sep)

RECURSIVE DigitsValue(_)
DigitsValue(s) ==
  IF s = <<>> THEN 0
  ELSE 10 * DigitsValue(SubSeq(s, 1, Len(s) - 1))
       + (IndexIn(Digits, s[Len(s)]) - 1)

\* int(s): ok is FALSE where int raises ValueError
int(s) ==
  LET signed == s # <<>> /\ s[1] \in {"-", "+"}
      body == IF signed THEN Tail(s) ELSE s
  IN IF body # <<>> /\ \A i \in 1..Len(body) : body[i] \in Range(Digits)
     THEN [ok |-> TRUE,
           val |-> IF signed /\ s[1] = "-" THEN 0 - DigitsValue(body)
                   ELSE DigitsValue(body)]
     ELSE [ok |-> FALSE, val |-> 0]

RECURSIVE NatStr(_)
NatStr(n) ==
  IF n < 10 THEN <<Digits[n + 1]>>
  ELSE NatStr(n \div 10) \o <<Digits[(n % 10) + 1]>>

\* str(n)
str(n) == IF n < 0 THEN <<"-">> \o NatStr(0 - n) ELSE NatStr(n)

\* a < b for two str
RECURSIVE StrLess(_, _)
StrLess(a, b) ==
  IF b = <<>> THEN FALSE
  ELSE IF a = <<>> THEN TRUE
  ELSE IF a[1] = b[1] THEN StrLess(Tail(a), Tail(b))
  ELSE IndexIn(CodePoints, a[1]) < IndexIn(CodePoints, b[1])

\* sorted(names) for a set of str
RECURSIVE sorted(_)
sorted(names) ==
  IF names = {} THEN <<>>
  ELSE LET least == CHOOSE n \in names : \A o \in names \ {n} : StrLess(n, o)
       IN <<least>> \o sorted(names \ {least})

\* an optional argument: None, or the value given
None == <<>>
Some(v) == <<v>>

(***************************************************************************)
(* Skill store configuration (skills.py lines 54-64) and the names of the  *)
(* files of a skill (lines 244, 259, 282).                                 *)
(***************************************************************************)
\* the path components of WORKSPACE_BASE, '/workspace'
WORKSPACE_BASE == << <<"w", "o", "r", "k", "s", "p", "a", "c", "e">> >>
SKILLS_DIR == WORKSPACE_BASE \o << <<"s", "k", "i", "l", "l", "s">> >>
MAX_SKILL_SIZE == 50 * 1024
\* line 64 sets 100; the store of the model holds MaxSkills
MAX_SKILLS == MaxSkills

implementation_py ==
  << "i", "m", "p", "l", "e", "m", "e", "n", "t", "a", "t", "i", "o", "n",
     ".", "p", "y" >>
metadata_json ==
  << "m", "e", "t", "a", "d", "a", "t", "a", ".", "j", "s", "o", "n" >>
SKILL_md == << "S", "K", "I", "L", "L", ".", "m", "d" >>

(***************************************************************************)
(* Skill code.  The text of a skill is its line ending, its length, and    *)
(* the syntax tree ast.parse gives it: a node is a def, an if block, a     *)
(* class, an import, a call of a builtin, or an assignment.                *)
(***************************************************************************)
Node(kind, name, body, ret, uses, params) ==
  [kind |-> kind, name |-> name, body |-> body, ret |-> ret, uses |-> uses,
   params |-> params]
\* def name(): return 'ret'
Def(name, ret) == Node("def", name, <<>>, ret, "", {})
\* def name(x): return 'ret'
DefX(name, ret) == Node("def", name, <<>>, ret, "", {"x"})
\* def name():  def inner(): ...  return 'ret'
DefNested(name, ret, inner) == Node("def", name, <<inner>>, ret, "", {})
\* def name(): return builtin(...)
DefUsing(name, builtin) == Node("def", name, <<>>, builtin, builtin, {})
\* if True: body
If(body) == Node("if", "", body, "", "", {})
\* class name: methods
Class(name, methods) == Node("class", name, methods, "", "", {})
\* import module
Import(module) == Node("import", module, <<>>, "", "", {})
\* builtin(...)
Expr(builtin) == Node("expr", "", <<>>, "", builtin, {})
\* name = 1
Assign(name) == Node("assign", name, <<>>, "", "", {})

\* a text: nl is its line ending, blank says it holds only whitespace,
\* len is len(text)
Text(nl, body, parses, blank, len) ==
  [type |-> "text", nl |-> nl, body |-> body, parses |-> parses,
   blank |-> blank, len |-> len]
EmptyText == Text("\n", <<>>, TRUE, TRUE, 0)
Code(body) == Text("\n", body, TRUE, FALSE, 20 * Len(body))
CodeCRLF(body) == Text("\r\n", body, TRUE, FALSE, 21 * Len(body))

\* the lines of a text (one per top-level statement)
NumLines(text) == Len(text.body)

\* what Path.read_text gives for what Path.write_text wrote: reading
\* translates every '\r\n' to '\n' (universal newlines)
read_text(content) ==
  IF content.type = "text" /\ content.nl = "\r\n"
  THEN [content EXCEPT !.nl = "\n", !.len = @ - NumLines(content)]
  ELSE content

\* ast.walk: breadth first
RECURSIVE walk(_)
walk(todo) ==
  IF todo = <<>> THEN <<>>
  ELSE <<Head(todo)>> \o walk(Tail(todo) \o Head(todo).body)

\* the names of the FunctionDef nodes ast.walk yields
FunctionDefs(body) ==
  LET defs == SelectSeq(walk(body), LAMBDA n : n.kind = "def")
  IN [i \in 1..Len(defs) |-> defs[i].name]

(***************************************************************************)
(* Validation (skills.py lines 107-162).                                   *)
(***************************************************************************)
RESERVED ==
  { <<"_", "_", "i", "n", "i", "t", "_", "_">>,
    <<"_", "_", "m", "a", "i", "n", "_", "_">>,
    <<"s", "e", "t", "u", "p">>, <<"t", "e", "s", "t">>,
    <<"c", "o", "n", "f", "i", "g">> }

\* _validate_skill_name(name): the exception it raises, NoExc when none
_validate_skill_name_CaseSensitive(name) ==
  IF name = <<>>
  THEN Exc("ValueError", <<"Skill name cannot be empty">>)
  ELSE IF ~isalnum(replace(replace(name, "_"), "-"))
  THEN Exc("ValueError", <<"Invalid skill name '">> \o name \o
           <<"'. Use only letters, numbers, underscores, and hyphens.">>)
  ELSE IF Len(name) > 50
  THEN Exc("ValueError", <<"Skill name must be 50 characters or less">>)
  ELSE IF name \in RESERVED
  THEN Exc("ValueError", <<"Skill name '">> \o name \o <<"' is reserved">>)
  ELSE NoExc

_validate_skill_name(name) ==
  IF name = <<>>
  THEN Exc("ValueError", <<"Skill name cannot be empty">>)
  ELSE IF ~isalnum(replace(replace(name, "_"), "-"))
  THEN Exc("ValueError", <<"Invalid skill name '">> \o name \o
           <<"'. Use only letters, numbers, underscores, and hyphens.">>)
  ELSE IF Len(name) > 50
  THEN Exc("ValueError", <<"Skill name must be 50 characters or less">>)
  ELSE IF lower(name) \in RESERVED
  THEN Exc("ValueError", <<"Skill name '">> \o name \o <<"' is reserved">>)
  ELSE NoExc

\* _validate_code(code)
_validate_code(code) ==
  IF code.len = 0 \/ code.blank
  THEN [valid |-> FALSE, error |-> <<"Code cannot be empty">>,
        functions |-> <<>>]
  ELSE IF code.len > MAX_SKILL_SIZE
  THEN [valid |-> FALSE,
        error |-> <<"Code too large (">> \o str(code.len)
                  \o <<" bytes). Maximum: ">> \o str(MAX_SKILL_SIZE),
        functions |-> <<>>]
  ELSE IF code.parses
  THEN [valid |-> TRUE, error |-> <<>>, functions |-> FunctionDefs(code.body)]
  ELSE [valid |-> FALSE,
        error |-> <<"Syntax error at line ">> \o str(NumLines(code) + 1)
                  \o <<": ", "invalid syntax">>,
        functions |-> <<>>]

(***************************************************************************)
(* The files beneath the root of the file system: a function from paths    *)
(* (sequences of path components) to nodes, and the pathlib operations     *)
(* skills.py and workspace.py apply to them.                               *)
(***************************************************************************)
NoContent == [type |-> "none"]
Dir == [kind |-> "dir", content |-> NoContent]
File(content) == [kind |-> "file", content |-> content]

Parent(p) == SubSeq(p, 1, Len(p) - 1)
exists(fs, p) == p \in DOMAIN fs
is_dir(fs, p) == exists(fs, p) /\ fs[p].kind = "dir"
is_file(fs, p) == exists(fs, p) /\ fs[p].kind = "file"
iterdir(fs, p) ==
  { q \in DOMAIN fs : Len(q) = Len(p) + 1 /\ SubSeq(q, 1, Len(p)) = p }
Without(fs, gone) == [q \in DOMAIN fs \ gone |-> fs[q]]

FsResult(fs, exc) == [fs |-> fs, exc |-> exc]
OSError(kind, p) == Exc(kind, <<"/">> \o join(p, "/"))

\* p.mkdir(parents=True, exist_ok=True)
RECURSIVE mkdir(_, _)
mkdir(fs, p) ==
  IF is_dir(fs, p) THEN FsResult(fs, NoExc)
  ELSE IF exists(fs, p) THEN FsResult(fs, OSError("FileExistsError", p))
  ELSE IF is_file(fs, Parent(p))
  THEN FsResult(fs, OSError("NotADirectoryError", p))
  ELSE LET up == mkdir(fs, Parent(p))
       IN IF up.exc # NoExc THEN up
          ELSE FsResult((p :> Dir) @@ up.fs, NoExc)

\* the description that cannot be encoded as UTF-8: a lone surrogate
LoneSurrogate == "\\udc80"

\* content.encode('utf-8') succeeds
encodable(content) ==
  ~(content.type = "md" /\ content.description = LoneSurrogate)

\* p.write_text(content, encoding='utf-8'): the file is opened, and so
\* created or emptied, before the content is encoded
write_text(fs, p, content) ==
  IF is_dir(fs, p) THEN FsResult(fs, OSError("IsADirectoryError", p))
  ELSE IF is_file(fs, Parent(p))
  THEN FsResult(fs, OSError("NotADirectoryError", p))
  ELSE IF ~exists(fs, Parent(p))
  THEN FsResult(fs, OSError("FileNotFoundError", p))
  ELSE IF ~encodable(content)
  THEN FsResult((p :> File(EmptyText)) @@ fs,
                Exc("UnicodeEncodeError", <<"surrogates not allowed">>))
  ELSE FsResult((p :> File(content)) @@ fs, NoExc)

\* the file system before any operation: the workspace root exists
EmptyWorkspace ==
  [p \in {SubSeq(WORKSPACE_BASE, 1, n) : n \in 0..Len(WORKSPACE_BASE)}
     |-> Dir]

(***************************************************************************)
(* The records of a skill (skills.py lines 248-283, 355-365).              *)
(***************************************************************************)
VARIABLE datetime_now  \* the time datetime.now() returns, in clock ticks

DefaultVersion == <<"1", ".", "0", ".", "0">>
DefaultReturns == "Result of the skill execution"

\* the metadata dict; keys tells which keys it has
Metadata(name, description, parameters, returns, functions, version) ==
  [keys |-> {"name", "description", "parameters", "returns", "functions",
             "version", "created", "updated"},
   name |-> name, description |-> description, parameters |-> parameters,
   returns |-> returns, functions |-> functions, version |-> version,
   created |-> datetime_now, updated |-> datetime_now]
\* the dict get_skill uses where metadata.json is missing (line 349)
MetadataMissing(name) ==
  [keys |-> {"name", "description", "functions"},
   name |-> name, description |-> "", parameters |-> <<>>,
   returns |-> "", functions |-> <<>>, version |-> <<>>,
   created |-> 0, updated |-> 0]
\* d.get(k, default)
Get(d, k, default) == IF k \in d.keys THEN d[k] ELSE default

\* json.dumps(value, indent=2) and json.loads(text)
json_dumps(value) == [type |-> "json", value |-> value]
json_loads(content) ==
  IF content.type = "json"
  THEN [exc |-> NoExc, value |-> content.value]
  ELSE [exc |-> Exc("JSONDecodeError", <<"Expecting value">>),
        value |-> MetadataMissing(<<>>)]

\* the parameter list of the documentation (skills.py lines 263-265),
\* without the quote marks around the parameter name
RECURSIVE ParamsText(_)
ParamsText(parameters) ==
  IF parameters = <<>> THEN <<>>
  ELSE <<"- ", parameters[1][1], ": ", parameters[1][2]>>
       \o (IF Len(parameters) > 1 THEN <<"\n">> ELSE <<>>)
       \o ParamsText(Tail(parameters))

\* the keyword arguments of the usage line (skills.py lines 267-269)
RECURSIVE ParamsExample(_)
ParamsExample(parameters) ==
  IF parameters = <<>> THEN <<>>
  ELSE <<", ", parameters[1][1], "=\"...\"">>
       \o ParamsExample(Tail(parameters))

\* SKILL_MD_TEMPLATE.format(...) (lines 71-100, 263-280)
SKILL_MD_TEMPLATE(name, description, parameters, returns, example, version) ==
  [type |-> "md", name |-> name, description |-> description,
   params_example |-> ParamsExample(parameters),
   parameters |-> IF parameters = <<>> THEN <<"None">>
                  ELSE ParamsText(parameters),
   returns |-> returns,
   example |-> IF example # <<>> THEN example
               ELSE <<"result = skills.run_skill(\"">> \o name \o <<"\")">>,
   version |-> version]

(***************************************************************************)
(* The skill operations as functions of the file system (skills.py lines   *)
(* 175-524).  Each gives the file system it leaves, the exception it       *)
(* raises (NoExc: none) and the value it returns.                          *)
(***************************************************************************)
NoValue == [none |-> TRUE]
OpResult(fs, exc, value) == [fs |-> fs, exc |-> exc, value |-> value]
Raise(fs, exc) == OpResult(fs, exc, NoValue)

skill_dir(name) == SKILLS_DIR \o <<name>>

\* list_skills()
list_skills(fs) ==
  IF ~exists(fs, SKILLS_DIR) THEN OpResult(fs, NoExc, <<>>)
  ELSE IF ~is_dir(fs, SKILLS_DIR)
  THEN Raise(fs, OSError("NotADirectoryError", SKILLS_DIR))
  ELSE OpResult(fs, NoExc,
         sorted({ item[Len(item)] : item \in
                    { i \in iterdir(fs, SKILLS_DIR) :
                        /\ is_dir(fs, i)
                        /\ exists(fs, i \o <<implementation_py>>) } }))

SaveRequest(name, code, description, parameters, returns, example, version) ==
  [name |-> name, code |-> code, description |-> description,
   parameters |-> parameters, returns |-> returns, example |-> example,
   version |-> version]

save_skill_MkdirFirst(fs, r) ==
  LET bad_name == _validate_skill_name(r.name)
      existing == list_skills(fs)
      validation == _validate_code(r.code)
      skill_path == skill_dir(r.name)
      parameters == IF r.parameters = None THEN <<>> ELSE r.parameters[1]
      made == mkdir(fs, skill_path)
      impl == write_text(made.fs, skill_path \o <<implementation_py>>, r.code)
      metadata == Metadata(r.name, r.description, parameters, r.returns,
                           validation.functions, r.version)
      meta == write_text(impl.fs, skill_path \o <<metadata_json>>,
                         json_dumps(metadata))
      md == write_text(meta.fs, skill_path \o <<SKILL_md>>,
                       SKILL_MD_TEMPLATE(r.name, r.description, parameters,
                                         r.returns, r.example, r.version))
  IN IF bad_name # NoExc THEN Raise(fs, bad_name)
     ELSE IF existing.exc # NoExc THEN Raise(fs, existing.exc)
     ELSE IF /\ Len(existing.value) >= MAX_SKILLS
             /\ r.name \notin Range(existing.value)
     THEN Raise(fs, Exc("ValueError",
                        <<"Maximum number of skills (">> \o str(MAX_SKILLS)
                        \o <<") reached">>))
     ELSE IF made.exc # NoExc THEN Raise(made.fs, made.exc)
     ELSE IF ~validation.valid
     THEN Raise(made.fs,
                Exc("ValueError", <<"Invalid code: ">> \o validation.error))
     ELSE IF validation.functions = <<>>
     THEN Raise(made.fs, Exc("ValueError",
                             <<"Code must define at least one function">>))
     ELSE IF impl.exc # NoExc THEN Raise(impl.fs, impl.exc)
     ELSE IF meta.exc # NoExc THEN Raise(meta.fs, meta.exc)
     ELSE IF md.exc # NoExc THEN Raise(md.fs, md.exc)
     ELSE OpResult(md.fs, NoExc,
                   [success |-> TRUE, name |-> r.name,
                    functions |-> validation.functions])

\* save_skill(name, code, description, parameters, returns, example, version)
save_skill_NoCountCheck(fs, r) ==
  LET bad_name == _validate_skill_name(r.name)
      validation == _validate_code(r.code)
      skill_path == skill_dir(r.name)
      parameters == IF r.parameters = None THEN <<>> ELSE r.parameters[1]
      made == mkdir(fs, skill_path)
      impl == write_text(made.fs, skill_path \o <<implementation_py>>, r.code)
      metadata == Metadata(r.name, r.description, parameters, r.returns,
                           validation.functions, r.version)
      meta == write_text(impl.fs, skill_path \o <<metadata_json>>,
                         json_dumps(metadata))
      md == write_text(meta.fs, skill_path \o <<SKILL_md>>,
                       SKILL_MD_TEMPLATE(r.name, r.description, parameters,
                                         r.returns, r.example, r.version))
  IN IF bad_name # NoExc THEN Raise(fs, bad_name)
     ELSE IF ~validation.valid
     THEN Raise(fs, Exc("ValueError", <<"Invalid code: ">> \o validation.error))
     ELSE IF validation.functions = <<>>
     THEN Raise(fs, Exc("ValueError",
                        <<"Code must define at least one function">>))
     ELSE IF made.exc # NoExc THEN Raise(made.fs, made.exc)
     ELSE IF impl.exc # NoExc THEN Raise(impl.fs, impl.exc)
     ELSE IF meta.exc # NoExc THEN Raise(meta.fs, meta.exc)
     ELSE IF md.exc # NoExc THEN Raise(md.fs, md.exc)
     ELSE OpResult(md.fs, NoExc,
                   [success |-> TRUE, name |-> r.name,
                    functions |-> validation.functions])

save_skill(fs, r) ==
  LET bad_name == _validate_skill_name(r.name)
      existing == list_skills(fs)
      validation == _validate_code(r.code)
      skill_path == skill_dir(r.name)
      parameters == IF r.parameters = None THEN <<>> ELSE r.parameters[1]
      made == mkdir(fs, skill_path)
      impl == write_text(made.fs, skill_path \o <<implementation_py>>, r.code)
      metadata == Metadata(r.name, r.description, parameters, r.returns,
                           validation.functions, r.version)
      meta == write_text(impl.fs, skill_path \o <<metadata_json>>,
                         json_dumps(metadata))
      md == write_text(meta.fs, skill_path \o <<SKILL_md>>,
                       SKILL_MD_TEMPLATE(r.name, r.description, parameters,
                                         r.returns, r.example, r.version))
  IN IF bad_name # NoExc THEN Raise(fs, bad_name)
     ELSE IF existing.exc # NoExc THEN Raise(fs, existing.exc)
     ELSE IF /\ Len(existing.value) >= MAX_SKILLS
             /\ r.name \notin Range(existing.value)
     THEN Raise(fs, Exc("ValueError",
                        <<"Maximum number of skills (">> \o str(MAX_SKILLS)
                        \o <<") reached">>))
     ELSE IF ~validation.valid
     THEN Raise(fs, Exc("ValueError", <<"Invalid code: ">> \o validation.error))
     ELSE IF validation.functions = <<>>
     THEN Raise(fs, Exc("ValueError",
                        <<"Code must define at least one function">>))
     ELSE IF made.exc # NoExc THEN Raise(made.fs, made.exc)
     ELSE IF impl.exc # NoExc THEN Raise(impl.fs, impl.exc)
     ELSE IF meta.exc # NoExc THEN Raise(meta.fs, meta.exc)
     ELSE IF md.exc # NoExc THEN Raise(md.fs, md.exc)
     ELSE OpResult(md.fs, NoExc,
                   [success |-> TRUE, name |-> r.name,
                    functions |-> validation.functions])

\* get_skill(name)
get_skill(fs, name) ==
  LET bad_name == _validate_skill_name(name)
      skill_path == skill_dir(name)
      impl_path == skill_path \o <<implementation_py>>
      meta_path == skill_path \o <<metadata_json>>
      md_path == skill_path \o <<SKILL_md>>
      code == IF exists(fs, impl_path) THEN read_text(fs[impl_path].content)
              ELSE EmptyText
      loaded == IF exists(fs, meta_path)
                THEN json_loads(read_text(fs[meta_path].content))
                ELSE [exc |-> NoExc, value |-> MetadataMissing(name)]
      metadata == loaded.value
      skill_md == IF exists(fs, md_path) THEN read_text(fs[md_path].content)
                  ELSE EmptyText
  IN IF bad_name # NoExc THEN Raise(fs, bad_name)
     ELSE IF ~exists(fs, skill_path)
     THEN Raise(fs, Exc("FileNotFoundError",
                        <<"Skill '">> \o name \o <<"' not found">>))
     ELSE IF is_dir(fs, impl_path)
     THEN Raise(fs, OSError("IsADirectoryError", impl_path))
     ELSE IF is_dir(fs, meta_path)
     THEN Raise(fs, OSError("IsADirectoryError", meta_path))
     ELSE IF loaded.exc # NoExc THEN Raise(fs, loaded.exc)
     ELSE IF is_dir(fs, md_path)
     THEN Raise(fs, OSError("IsADirectoryError", md_path))
     ELSE OpResult(fs, NoExc,
            [name |-> name, code |-> code, metadata |-> metadata,
             skill_md |-> skill_md,
             description |-> Get(metadata, "description", ""),
             functions |-> Get(metadata, "functions", <<>>),
             parameters |-> Get(metadata, "parameters", <<>>),
             version |-> Get(metadata, "version", DefaultVersion)])

\* delete_skill(name) where rmdir is left out
delete_skill_KeepsDirectory(fs, name, unlinked) ==
  LET bad_name == _validate_skill_name(name)
      skill_path == skill_dir(name)
      items == iterdir(fs, skill_path)
  IN IF bad_name # NoExc THEN Raise(fs, bad_name)
     ELSE IF ~exists(fs, skill_path)
     THEN Raise(fs, Exc("FileNotFoundError",
                        <<"Skill '">> \o name \o <<"' not found">>))
     ELSE OpResult(Without(fs, items), NoExc,
                   [success |-> TRUE,
                    message |-> <<"Skill '">> \o name \o <<"' deleted">>])

\* delete_skill(name); unlinked is the files iterdir yields before it
\* yields a directory, where the skill directory holds one
delete_skill(fs, name, unlinked) ==
  LET bad_name == _validate_skill_name(name)
      skill_path == skill_dir(name)
      items == iterdir(fs, skill_path)
      dirs == { i \in items : is_dir(fs, i) }
  IN IF bad_name # NoExc THEN Raise(fs, bad_name)
     ELSE IF ~exists(fs, skill_path)
     THEN Raise(fs, Exc("FileNotFoundError",
                        <<"Skill '">> \o name \o <<"' not found">>))
     ELSE IF ~is_dir(fs, skill_path)
     THEN Raise(fs, OSError("NotADirectoryError", skill_path))
     ELSE IF dirs # {}
     THEN Raise(Without(fs, unlinked \cap (items \ dirs)),
                OSError("IsADirectoryError",
                        CHOOSE d \in dirs : TRUE))
     ELSE OpResult(Without(fs, items \cup {skill_path}), NoExc,
                   [success |-> TRUE,
                    message |-> <<"Skill '">> \o name \o <<"' deleted">>])

UpdateRequest(name, code, description, parameters, returns, example) ==
  [name |-> name, code |-> code, description |-> description,
   parameters |-> parameters, returns |-> returns, example |-> example]

\* update_skill(name, code, description, parameters, returns, example)
update_skill(fs, u) ==
  LET existing == get_skill(fs, u.name)
      e == existing.value
      new_code == IF u.code # None THEN u.code[1] ELSE e.code
      new_description ==
        IF u.description # None THEN u.description[1] ELSE e.description
      new_parameters ==
        IF u.parameters # None THEN u.parameters[1] ELSE e.parameters
      new_returns == IF u.returns # None THEN u.returns[1]
                     ELSE Get(e.metadata, "returns", "")
      new_example == IF u.example # None THEN u.example[1] ELSE <<>>
      old_version == e.version
      parts == split(old_version, ".")
      last == int(parts[Len(parts)])
      new_version ==
        join([parts EXCEPT ![Len(parts)] = str(last.val + 1)], ".")
  IN IF existing.exc # NoExc THEN Raise(fs, existing.exc)
     ELSE IF ~last.ok
     THEN Raise(fs, Exc("ValueError",
                        <<"invalid literal for int() with base 10: '">>
                        \o parts[Len(parts)] \o <<"'">>))
     ELSE save_skill(fs, SaveRequest(u.name, new_code, new_description,
                                     Some(new_parameters), new_returns,
                                     new_example, new_version))

(***************************************************************************)
(* run_skill (skills.py lines 368-440): exec(code, exec_globals) and the   *)
(* call of the target function.                                            *)
(***************************************************************************)
\* the names the builtins module has: what '__builtins__': __builtins__
\* (line 416) makes resolvable
FullBuiltins == RESTRICTED_BUILTINS \cup BLOCKED_BUILTINS

\* the state of exec: the names bound in exec_globals, the operations the
\* code has performed, the exception that ended it
ExecState(bound, effects, exc) ==
  [bound |-> bound, effects |-> effects, exc |-> exc]

\* exec(code, exec_globals) of the statements body.  builtins is the
\* names exec_globals['__builtins__'] has; gated says that its __import__
\* is safe_import
RECURSIVE exec_skill(_, _, _, _, _)
exec_skill(body, m, builtins, gated, tools) ==
  IF body = <<>> \/ m.exc # NoExc THEN m
  ELSE LET s == Head(body)
           imported ==
             IF gated THEN safe_import(<<s.name>>, tools)
             ELSE IF s.name \in SandboxTools /\ ~tools
             THEN Exc("ModuleNotFoundError",
                      <<"No module named '", s.name, "'">>)
             ELSE NoExc
           n == CASE s.kind \in {"def", "class", "assign"} ->
                       [m EXCEPT !.bound = (s.name :> s) @@ m.bound]
                  [] s.kind = "if" ->
                       exec_skill(s.body, m, builtins, gated, tools)
                  [] s.kind = "import" ->
                       IF imported # NoExc THEN [m EXCEPT !.exc = imported]
                       ELSE [m EXCEPT
                               !.effects = Append(@, <<"import", s.name>>),
                               !.bound = (s.name :> s) @@ m.bound]
                  [] s.kind = "expr" ->
                       IF s.uses \in builtins
                       THEN [m EXCEPT
                               !.effects = Append(@, <<"call", s.uses>>)]
                       ELSE [m EXCEPT !.exc = NameError(s.uses)]
       IN exec_skill(Tail(body), n, builtins, gated, tools)

\* func(**kwargs) for the object bound to a name
call_function(func, kwargs, m, builtins) ==
  IF func.kind # "def"
  THEN [m EXCEPT !.exc = Exc("TypeError", <<"object is not callable">>)]
  ELSE IF kwargs # func.params
  THEN [m EXCEPT !.exc = Exc("TypeError",
                    <<func.name, "() got an unexpected keyword argument">>)]
  ELSE IF func.uses = "" THEN m
  ELSE IF func.uses \in builtins
  THEN [m EXCEPT !.effects = Append(@, <<"call", func.uses>>)]
  ELSE [m EXCEPT !.exc = NameError(func.uses)]

\* what run_skill leaves: returned is the value of the call, invoked the
\* function called, prepared whether lines 411-430 ran, executed whether
\* exec ran the code of the skill
RunValue(returned, invoked, prepared, executed, effects) ==
  [returned |-> returned, invoked |-> invoked, prepared |-> prepared,
   executed |-> executed, effects |-> effects]

\* run_skill(name, function, **kwargs)
run_skill(fs, name, function, kwargs, tools) ==
  LET skill_info == get_skill(fs, name)
      code == skill_info.value.code
      functions == skill_info.value.functions
      given == function # None /\ function[1] # ""
      target_function == IF given THEN function[1] ELSE functions[1]
      ran == exec_skill(code.body, ExecState(<<>>, <<>>, NoExc),
                        FullBuiltins, FALSE, tools)
      func == ran.bound[target_function]
      called == call_function(func, kwargs, ran, FullBuiltins)
  IN IF skill_info.exc # NoExc
     THEN OpResult(fs, skill_info.exc, RunValue("", "", FALSE, FALSE, <<>>))
     ELSE IF functions = <<>>
     THEN OpResult(fs, Exc("ValueError", <<"Skill '">> \o name
                                 \o <<"' has no functions defined">>),
                   RunValue("", "", FALSE, FALSE, <<>>))
     ELSE IF given /\ function[1] \notin Range(functions)
     THEN OpResult(fs, Exc("ValueError",
                           <<"Function '", function[1],
                             "' not found in skill '">> \o name
                           \o <<"'. Available: ">> \o join_words(functions, ", ")),
                   RunValue("", "", FALSE, FALSE, <<>>))
     ELSE IF ~code.parses
     THEN OpResult(fs, Exc("SyntaxError", <<"invalid syntax">>),
                   RunValue("", "", TRUE, FALSE, <<>>))
     ELSE IF ran.exc # NoExc
     THEN OpResult(fs, ran.exc, RunValue("", "", TRUE, TRUE, ran.effects))
     ELSE IF target_function \notin DOMAIN ran.bound
     THEN OpResult(fs, Exc("ValueError",
                           <<"Function '", target_function,
                             "' not found after executing skill">>),
                   RunValue("", "", TRUE, TRUE, ran.effects))
     ELSE IF called.exc # NoExc
     THEN OpResult(fs, called.exc,
                   RunValue("", target_function, TRUE, TRUE, called.effects))
     ELSE OpResult(fs, NoExc,
                   RunValue(func.ret, target_function, TRUE, TRUE,
                            called.effects))

(***************************************************************************)
(* The workspace operations that write (workspace.py lines 43-176 and      *)
(* 349-370).                                                               *)
(***************************************************************************)
MAX_FILE_SIZE == 10 * 1024 * 1024
MAX_WORKSPACE_SIZE == 100 * 1024 * 1024

ALLOWED_EXTENSIONS ==
  { <<".", "t", "x", "t">>, <<".", "j", "s", "o", "n">>,
    <<".", "c", "s", "v">>, <<".", "y", "a", "m", "l">>,
    <<".", "y", "m", "l">>, <<".", "m", "d">>, <<".", "p", "y">>,
    <<".", "l", "o", "g">>, <<".", "x", "m", "l">>,
    <<".", "h", "t", "m", "l">>, <<".", "c", "s", "s">>, <<".", "j", "s">> }

\* the parts of Path(filepath): empty and '.' components are dropped
PathParts(filepath) ==
  SelectSeq(split(filepath, "/"), LAMBDA c : c # <<>> /\ c # <<".">>)

\* Path(filepath).suffix
suffix(filepath) ==
  LET parts == PathParts(filepath)
      name == IF parts = <<>> THEN <<>> ELSE parts[Len(parts)]
      dots == { i \in 1..Len(name) : name[i] = "." }
      i == CHOOSE k \in dots : \A j \in dots : j <= k
  IN IF dots = {} \/ name = <<".", ".">> THEN <<>>
     ELSE IF i = 1 \/ i = Len(name) THEN <<>>
     ELSE SubSeq(name, i, Len(name))

\* _check_extension(filepath): the exception it raises
_check_extension(filepath) ==
  LET ext == lower(suffix(filepath))
  IN IF ext # <<>> /\ ext \notin ALLOWED_EXTENSIONS
     THEN Exc("ValueError", <<"File extension '">> \o ext
                            \o <<"' not allowed. ">>)
     ELSE NoExc

\* Path.resolve() of path components, where no component is a link
RECURSIVE resolve(_, _)
resolve(parts, done) ==
  IF parts = <<>> THEN done
  ELSE IF Head(parts) = <<".", ".">>
  THEN resolve(Tail(parts), Parent(done))
  ELSE resolve(Tail(parts), Append(done, Head(parts)))

_sanitize_path_AlwaysRelative(filepath) ==
  LET workspace == resolve(WORKSPACE_BASE, <<>>)
      full_path == resolve(PathParts(filepath), workspace)
      inside == /\ Len(full_path) >= Len(workspace)
                /\ SubSeq(full_path, 1, Len(workspace)) = workspace
  IN IF inside THEN [exc |-> NoExc, path |-> full_path]
     ELSE [exc |-> Exc("PermissionError",
                       <<"Access denied: Path '">> \o filepath
                       \o <<"' is outside workspace. ">>),
           path |-> full_path]

\* _sanitize_path(filepath): the exception it raises and the path it gives
_sanitize_path(filepath) ==
  LET workspace == resolve(WORKSPACE_BASE, <<>>)
      full_path ==
        IF filepath # <<>> /\ filepath[1] = "/"
        THEN resolve(PathParts(filepath), <<>>)
        ELSE resolve(PathParts(filepath), workspace)
      inside == /\ Len(full_path) >= Len(workspace)
                /\ SubSeq(full_path, 1, Len(workspace)) = workspace
  IN IF inside THEN [exc |-> NoExc, path |-> full_path]
     ELSE [exc |-> Exc("PermissionError",
                       <<"Access denied: Path '">> \o filepath
                       \o <<"' is outside workspace. ">>),
           path |-> full_path]

\* a description of one character more than MAX_FILE_SIZE
Description_huge == "d * (MAX_FILE_SIZE + 1)"

\* len(description): the descriptions are of two characters, but the huge
str_len(description) ==
  IF description = Description_huge THEN MAX_FILE_SIZE + 1 ELSE 2

\* st_size of a file with the content: a text has its length, the dump of
\* a str of n characters n + 2, the metadata and the documentation of a
\* skill their fixed text and the fields that vary
st_size(content) ==
  CASE content.type = "text" -> content.len
    [] content.type = "json" ->
         IF "str_len" \in DOMAIN content.value
         THEN content.value.str_len + 2
         ELSE 200 + Len(content.value.functions)
              + str_len(content.value.description)
    [] content.type = "md" ->
         300 + Len(content.example) + str_len(content.description)
    [] OTHER -> 0

RECURSIVE SumSizes(_, _)
SumSizes(fs, paths) ==
  IF paths = {} THEN 0
  ELSE LET p == CHOOSE q \in paths : TRUE
       IN st_size(fs[p].content) + SumSizes(fs, paths \ {p})

\* _get_workspace_size()
_get_workspace_size(fs) ==
  IF ~exists(fs, WORKSPACE_BASE) THEN 0
  ELSE SumSizes(fs, { p \in DOMAIN fs :
                        /\ Len(p) > Len(WORKSPACE_BASE)
                        /\ SubSeq(p, 1, Len(WORKSPACE_BASE)) = WORKSPACE_BASE
                        /\ is_file(fs, p) })

\* write_file(filepath, content, overwrite)
write_file(fs, filepath, content, overwrite) ==
  LET bad_ext == _check_extension(filepath)
      sane == _sanitize_path(filepath)
      full_path == sane.path
      size == st_size(content)
      current_size == _get_workspace_size(fs)
      made == mkdir(fs, Parent(full_path))
      written == write_text(made.fs, full_path, content)
  IN IF bad_ext # NoExc THEN Raise(fs, bad_ext)
     ELSE IF sane.exc # NoExc THEN Raise(fs, sane.exc)
     ELSE IF size > MAX_FILE_SIZE
     THEN Raise(fs, Exc("ValueError", <<"Content too large (">> \o str(size)
                                      \o <<" bytes). ">>))
     ELSE IF current_size + size > MAX_WORKSPACE_SIZE
     THEN Raise(fs, Exc("ValueError", <<"Workspace quota exceeded. ">>))
     ELSE IF ~overwrite /\ exists(fs, full_path)
     THEN Raise(fs, Exc("FileExistsError",
                        <<"File already exists: ">> \o filepath))
     ELSE IF made.exc # NoExc THEN Raise(made.fs, made.exc)
     ELSE IF written.exc # NoExc THEN Raise(written.fs, written.exc)
     ELSE OpResult(written.fs, NoExc,
                   [success |-> TRUE, path |-> full_path, size |-> size])

\* create_directory(dirpath)
create_directory(fs, dirpath) ==
  LET sane == _sanitize_path(dirpath)
      made == mkdir(fs, sane.path)
  IN IF sane.exc # NoExc THEN Raise(fs, sane.exc)
     ELSE IF made.exc # NoExc THEN Raise(made.fs, made.exc)
     ELSE OpResult(made.fs, NoExc, [success |-> TRUE, path |-> sane.path])

(***************************************************************************)
(* The workspace operations that read, list and delete, and the checkpoint *)
(* wrappers (workspace.py lines 179-308 and 377-445).                      *)
(***************************************************************************)
\* read_file(filepath)
read_file(fs, filepath) ==
  LET sane == _sanitize_path(filepath)
      full_path == sane.path
  IN IF sane.exc # NoExc THEN Raise(fs, sane.exc)
     ELSE IF ~exists(fs, full_path)
     THEN Raise(fs, Exc("FileNotFoundError",
                        <<"File not found: ">> \o filepath))
     ELSE IF ~is_file(fs, full_path)
     THEN Raise(fs, Exc("IsADirectoryError",
                        <<"Path is a directory: ">> \o filepath))
     ELSE OpResult(fs, NoExc, read_text(fs[full_path].content))

\* delete_file(filepath)
delete_file(fs, filepath) ==
  LET sane == _sanitize_path(filepath)
      full_path == sane.path
  IN IF sane.exc # NoExc THEN Raise(fs, sane.exc)
     ELSE IF ~exists(fs, full_path)
     THEN Raise(fs, Exc("FileNotFoundError",
                        <<"File not found: ">> \o filepath))
     ELSE IF is_dir(fs, full_path)
     THEN Raise(fs, Exc("IsADirectoryError",
                        <<"Cannot delete directory with delete_file: ">>
                        \o filepath))
     ELSE OpResult(Without(fs, {full_path}), NoExc,
                   [success |-> TRUE, message |-> <<"Deleted ">> \o filepath])

\* full_path.rglob('*'): everything beneath a directory
rglob(fs, p) ==
  { q \in DOMAIN fs : Len(q) > Len(p) /\ SubSeq(q, 1, Len(p)) = p }

\* str(item.relative_to(Path(WORKSPACE_BASE)))
relative_name(item) ==
  join(SubSeq(item, Len(WORKSPACE_BASE) + 1, Len(item)), "/")

\* list_files(directory, recursive): the entries sorted by name
list_files(fs, directory, recursive) ==
  LET sane == IF directory # <<>> THEN _sanitize_path(directory)
              ELSE [exc |-> NoExc, path |-> WORKSPACE_BASE]
      full_path == sane.path
      items == IF recursive THEN rglob(fs, full_path)
               ELSE iterdir(fs, full_path)
      names == sorted({ relative_name(item) : item \in items })
      entry(name) ==
        LET item == CHOOSE i \in items : relative_name(i) = name
        IN [name |-> name,
            type |-> IF is_dir(fs, item) THEN "directory" ELSE "file",
            size |-> IF is_file(fs, item) THEN st_size(fs[item].content)
                     ELSE 0]
  IN IF sane.exc # NoExc THEN Raise(fs, sane.exc)
     ELSE IF ~exists(fs, full_path) THEN OpResult(fs, NoExc, <<>>)
     ELSE IF ~is_dir(fs, full_path)
     THEN Raise(fs, Exc("NotADirectoryError",
                        <<"Not a directory: ">> \o directory))
     ELSE OpResult(fs, NoExc, [i \in 1..Len(names) |-> entry(names[i])])

\* file_exists(filepath)
file_exists(fs, filepath) ==
  LET sane == _sanitize_path(filepath)
  IN IF sane.exc # NoExc THEN OpResult(fs, NoExc, FALSE)
     ELSE OpResult(fs, NoExc, is_file(fs, sane.path))

\* the path of the checkpoint name: f"checkpoints/{name}.json"
checkpoints == <<"c", "h", "e", "c", "k", "p", "o", "i", "n", "t", "s">>
dot_json == <<".", "j", "s", "o", "n">>
checkpoint_path(name) == checkpoints \o <<"/">> \o name \o dot_json

\* save_checkpoint(name, data)
save_checkpoint(fs, name, data) ==
  write_file(fs, checkpoint_path(name), json_dumps(data), TRUE)

\* load_checkpoint(name)
load_checkpoint(fs, name) ==
  LET read == read_file(fs, checkpoint_path(name))
      loaded == json_loads(read.value)
  IN IF read.exc # NoExc THEN read
     ELSE IF loaded.exc # NoExc THEN Raise(fs, loaded.exc)
     ELSE OpResult(fs, NoExc, loaded.value)

\* s.endswith(tail)
endswith(s, tail) ==
  Len(s) >= Len(tail) /\ SubSeq(s, Len(s) - Len(tail) + 1, Len(s)) = tail

\* s.replace(old, '')
RECURSIVE remove(_, _)
remove(s, old) ==
  IF Len(s) < Len(old) THEN s
  ELSE IF SubSeq(s, 1, Len(old)) = old
  THEN remove(SubSeq(s, Len(old) + 1, Len(s)), old)
  ELSE <<Head(s)>> \o remove(Tail(s), old)

\* list_checkpoints()
list_checkpoints(fs) ==
  LET files == list_files(fs, checkpoints \o <<"/">>, FALSE)
      kept == SelectSeq(files.value,
                        LAMBDA f : /\ f.type = "file"
                                   /\ endswith(f.name, dot_json))
  IN IF files.exc # NoExc THEN files
     ELSE OpResult(fs, NoExc,
                   [i \in 1..Len(kept) |->
                      remove(remove(kept[i].name, checkpoints \o <<"/">>),
                             dot_json)])

\* delete_checkpoint(name)
delete_checkpoint(fs, name) == delete_file(fs, checkpoint_path(name))

(***************************************************************************)
(* The record of the last skill store or workspace operation: its          *)
(* arguments, the exception it raised, the value it returned, and what it  *)
(* found before it ran.                                                    *)
(***************************************************************************)
\* the content of a file, NoContent where there is none
ContentAt(fs, p) == IF is_file(fs, p) THEN fs[p].content ELSE NoContent

\* what is beneath the directory of the skill name
SkillFiles(fs, name) ==
  [dir |-> exists(fs, skill_dir(name)),
   impl |-> ContentAt(fs, skill_dir(name) \o <<implementation_py>>),
   meta |-> ContentAt(fs, skill_dir(name) \o <<metadata_json>>),
   md |-> ContentAt(fs, skill_dir(name) \o <<SKILL_md>>)]

\* the names beneath the skill directory
SkillDirs(fs) == { p[Len(p)] : p \in iterdir(fs, SKILLS_DIR) }

\* list_skills() where it returns, [] where it raises
Listed(fs) ==
  LET l == list_skills(fs) IN IF l.exc = NoExc THEN l.value ELSE <<>>

OpRecord(op, name, args, res, fs) ==
  [op |-> op, name |-> name, args |-> args, exc |-> res.exc,
   value |-> res.value,
   \* history, not read by the code:
   before |-> SkillFiles(fs, name),  \* the files of the skill before
   listed_before |-> Listed(fs),     \* list_skills() before
   dirs_before |-> SkillDirs(fs),    \* the skill directories before
   changed |-> res.fs # fs,          \* the operation changed a file
   at |-> datetime_now]              \* the time of the operation

\* the trailing component of the version of a skill is a number below max,
\* or the skill has no such version
VersionBelow(fs, name, max) ==
  LET got == get_skill(fs, name)
      parts == split(got.value.version, ".")
      last == int(parts[Len(parts)])
  IN IF got.exc # NoExc THEN TRUE
     ELSE IF ~last.ok THEN TRUE
     ELSE last.val < max

\* no operation yet
NoOp ==
  [op |-> "none", name |-> <<>>, args |-> NoValue, exc |-> NoExc,
   value |-> NoValue, before |-> SkillFiles(EmptyWorkspace, <<>>),
   listed_before |-> <<>>, dirs_before |-> {}, changed |-> FALSE,
   at |-> 0]

(***************************************************************************)
(* The requests the skill store and the workspace are given.               *)
(***************************************************************************)
Name_a == <<"a">>
Name_b == <<"b", "_", "1">>
Name_c == Times("c", 50)
ValidNames == {Name_a, Name_b, Name_c}
InvalidNames ==
  { <<>>, <<"a", " ", "b">>, <<"a", "/", "b">>, <<"a", ".", "b">>,
    Times("a", 51), <<"S", "e", "t", "U", "p">>, <<"t", "e", "s", "t">> }
SkillNames == ValidNames \cup InvalidNames

\* def f(): return 'f' / def g(): return 'g'
Code_f_g == Code(<<Def("f", "f"), Def("g", "g")>>)
\* if True: def g(): ... / def f(): ...
Code_block == Code(<<If(<<Def("g", "g")>>), Def("f", "f")>>)
\* def f(): def inner(): ... / def g(): ...
Code_nested ==
  Code(<<DefNested("f", "f", Def("inner", "inner")), Def("g", "g")>>)
\* class A: def m(self): ...
Code_class == Code(<<Class("A", <<Def("m", "m")>>)>>)
\* the same as Code_f_g with '\r\n' line endings
Code_crlf == CodeCRLF(<<Def("f", "f"), Def("g", "g")>>)
\* import socket / def f(): ...
Code_import == Code(<<Import("socket"), Def("f", "f")>>)
\* def f(): return open(...)
Code_open == Code(<<DefUsing("f", "open")>>)
\* eval(...) / def f(): ...
Code_eval == Code(<<Expr("eval"), Def("f", "f")>>)
\* def double(x): ...
Code_double == Code(<<DefX("double", "42")>>)
\* a text of exactly MAX_SKILL_SIZE characters
Code_largest == Text("\n", <<Def("f", "f")>>, TRUE, FALSE, MAX_SKILL_SIZE)
ValidCodes ==
  { Code_f_g, Code_block, Code_nested, Code_class, Code_crlf, Code_import,
    Code_open, Code_eval, Code_double, Code_largest }

Code_whitespace == Text("\n", <<>>, TRUE, TRUE, 2)
Code_unparsable == Text("\n", <<>>, FALSE, FALSE, 7)
Code_oversized == Text("\n", <<Def("f", "f")>>, TRUE, FALSE, MAX_SKILL_SIZE + 1)
\* x = 1
Code_no_function == Code(<<Assign("x")>>)
InvalidCodes ==
  { EmptyText, Code_whitespace, Code_unparsable, Code_oversized,
    Code_no_function }

Params_x == << <<"x", "the number">> >>
Version_2_1 == <<"2", ".", "1">>
Version_beta == <<"1", ".", "0", ".", "0", "-", "b", "e", "t", "a">>
VersionValues == {DefaultVersion, Version_2_1, Version_beta}

\* save_skill(name, Code_f_g, "d1")
BaseRequest(name) ==
  SaveRequest(name, Code_f_g, "d1", None, DefaultReturns, <<>>,
              DefaultVersion)
\* a save with every argument given
FullRequest ==
  SaveRequest(Name_a, Code_f_g, "d2", Some(Params_x), "r2", <<"E1">>,
              DefaultVersion)

\* update_skill(name) with no field given
NothingGiven(name) == UpdateRequest(name, None, None, None, None, None)
RunRequest(name, function, kwargs) ==
  [name |-> name, function |-> function, kwargs |-> kwargs]

\* the requests of the store's life cycle: every name, the codes that are
\* refused, a version given to save, a description that cannot be written
LifecycleSaves ==
  { BaseRequest(n) : n \in SkillNames }
  \cup { [BaseRequest(Name_a) EXCEPT !.code = c] : c \in InvalidCodes }
  \cup { [BaseRequest(Name_a) EXCEPT !.version = Version_2_1],
         [BaseRequest(Name_a) EXCEPT !.description = LoneSurrogate] }
LifecycleUpdates == { NothingGiven(Name_a) }
LifecycleNames == ValidNames \cup {<<"a", "/", "b">>}
LifecycleRuns ==
  { RunRequest(Name_a, None, {}), RunRequest(Name_a, Some("h"), {}) }

\* the requests that save and update one skill in every way
RevisionSaves ==
  { [BaseRequest(Name_a) EXCEPT !.version = v] : v \in VersionValues }
  \cup { FullRequest, [BaseRequest(Name_a) EXCEPT !.code = Code_crlf] }
RevisionUpdates ==
  { NothingGiven(Name_a),
    [NothingGiven(Name_a) EXCEPT !.code = Some(Code_block)],
    [NothingGiven(Name_a) EXCEPT !.description = Some("d3")],
    [NothingGiven(Name_a) EXCEPT !.parameters = Some(<<>>)],
    [NothingGiven(Name_a) EXCEPT !.returns = Some("r3")],
    [NothingGiven(Name_a) EXCEPT !.example = Some(<<"E3">>)] }

\* the requests that save and run code of every shape
RunSaves == { [BaseRequest(Name_a) EXCEPT !.code = c] : c \in ValidCodes }
FunctionValues == {None, Some("f"), Some("g"), Some("h"), Some("inner")}
RunRequests ==
  { RunRequest(Name_a, f, {}) : f \in FunctionValues }
  \cup { RunRequest(Name_a, None, {"x"}) }

\* the paths and contents given to the workspace, beneath the skill
\* directory, beside it, outside the workspace, of a refused extension
Name_spaced == <<"a", " ", "b">>
Name_ghost == <<"g", "h", "o", "s", "t">>
skills == SKILLS_DIR[Len(SKILLS_DIR)]
Path_stray == join(<<skills, Name_spaced, implementation_py>>, "/")
Path_impl_a == join(<<skills, Name_a, implementation_py>>, "/")
Path_notes == <<"n", ".", "t", "x", "t">>
Path_outside == <<".", ".", "/", "n", ".", "t", "x", "t">>
Path_exe == <<"n", ".", "e", "x", "e">>
Path_ghost == join(<<skills, Name_ghost>>, "/")
WorkspacePaths ==
  {Path_stray, Path_impl_a, Path_notes, Path_outside, Path_exe}
WorkspaceContents == {EmptyText, Code_unparsable}
WorkspaceDirs == {Path_ghost, <<".", ".", "/", "o">>}
WorkspaceSaves == {BaseRequest(Name_a)}
WorkspaceNames == {Name_a, Name_ghost, Name_spaced}

(***************************************************************************)
(* State.                                                                  *)
(***************************************************************************)
VARIABLES
  sys_stdout,       \* the object sys.stdout names
  sys_stderr,       \* the object sys.stderr names
  buffers,          \* the io.StringIO objects: their text, whether closed
  sigalrm_handler,  \* the handler installed for SIGALRM
  alarm,            \* seconds until the process's alarm fires, 0: none
  rlimit_as,        \* the process's address-space limit
  module_attrs,     \* attributes set on the process's module objects
  sys_path,         \* sys.path
  tools_available,  \* the tool modules can be imported
  call,             \* per thread: the execute_code call it is in
  calls_made,       \* per thread: the calls it has made
  workspace_fs,     \* the files and directories of the file system
  skill_op,         \* the last skill store or workspace operation
  saving            \* per caller: the save_skill call it is in

procVars ==
  <<sys_stdout, sys_stderr, buffers, sigalrm_handler, alarm, rlimit_as,
    module_attrs, sys_path, tools_available>>
storeVars == <<workspace_fs, skill_op, datetime_now, saving>>
vars == <<procVars, call, calls_made, storeVars>>

\* the streams of the process before any call
OrigStdout == <<"sys.__stdout__", 0>>
OrigStderr == <<"sys.__stderr__", 0>>
\* the StringIO of thread t's n-th call
BufferOf(t, n) == <<t, n>>
BufferIds == Threads \X (1..MaxCalls)

SIG_DFL == [kind |-> "SIG_DFL", owner |-> "", seconds |-> PyNum(TRUE, 0)]
\* the closure signal_handler that timeout_handler(seconds) defines
SignalHandler(t, seconds) ==
  [kind |-> "signal_handler", owner |-> t, seconds |-> seconds]

NoBuffer == [text |-> <<>>, open |-> FALSE]

IdleCall ==
  [pc |-> "idle",
   code |-> PyNone, timeout |-> PyNum(TRUE, 0), max_output |-> 0,
   old_stdout |-> OrigStdout, old_stderr |-> OrigStderr,
   old_handler |-> SIG_DFL, captured_output |-> OrigStdout,
   exec_globals |-> {}, exec_locals |-> {}, fbody |-> "",
   ip |-> 0, exc |-> NoExc,
   result |-> Envelope(FALSE, <<>>, <<>>, FALSE),
   \* history, not read by the code:
   clause |-> "",        \* how the attempt was classified
   emitted |-> <<>>,     \* the text the snippet has written
   captured |-> <<>>,    \* captured_output.getvalue() of line 368
   executed |-> 0,       \* the statements the snippet has run
   rejected |-> {},      \* the modules safe_import has refused
   fired_at |-> "",      \* where the call was when its alarm went off
   stdout_at_call |-> OrigStdout,  \* sys.stdout when the call was made
   stderr_at_call |-> OrigStderr,  \* sys.stderr when the call was made
   handler_at_call |-> SIG_DFL     \* the SIGALRM handler when it was made
  ]

\* the callers whose save_skill calls interleave
Callers == {"A", "B"}
\* a caller that is in no save_skill call
NotSaving == [pc |-> "idle", r |-> NoValue, functions |-> <<>>]

\* the process and the store before any call, on the file system fs
InitOn(fs) ==
  /\ sys_stdout = OrigStdout
  /\ sys_stderr = OrigStderr
  /\ buffers = [b \in BufferIds |-> NoBuffer]
  /\ sigalrm_handler = SIG_DFL
  /\ alarm = 0
  /\ rlimit_as = [limited |-> FALSE, bytes |-> 0]
  /\ module_attrs = {}
  /\ sys_path = <<"site-packages">>
  /\ tools_available \in BOOLEAN
  /\ call = [t \in Threads |-> IdleCall]
  /\ calls_made = [t \in Threads |-> 0]
  /\ workspace_fs = fs
  /\ skill_op = NoOp
  /\ datetime_now = 0
  /\ saving = [c \in Callers |-> NotSaving]

Init == InitOn(EmptyWorkspace)

(***************************************************************************)
(* execute_code(code, timeout, max_output), step by step.                  *)
(***************************************************************************)
\* the caller calls execute_code(code, timeout, max_output)
Call(t) ==
  /\ call[t].pc = "idle"
  /\ calls_made[t] < MaxCalls
  /\ calls_made' = [calls_made EXCEPT ![t] = @ + 1]
  /\ \E code \in CodeValues, timeout \in TimeoutValues,
        max_output \in MaxOutputValues :
       call' = [call EXCEPT ![t] =
          [IdleCall EXCEPT !.pc = "validate", !.code = code,
                           !.timeout = timeout, !.max_output = max_output,
                           !.stdout_at_call = sys_stdout,
                           !.stderr_at_call = sys_stderr,
                           !.handler_at_call = sigalrm_handler]]
  /\ UNCHANGED storeVars
  /\ UNCHANGED procVars

\* lines 301-316
Validate(t) ==
  /\ call[t].pc = "validate"
  /\ LET v == validate_input(call[t].code) IN
     call' = [call EXCEPT ![t].pc =
                 CASE v.do = "return" -> "done"
                   [] v.do = "raise" -> "raised"
                   [] OTHER -> "capture",
               ![t].result = v.result,
               ![t].exc = v.exc,
               ![t].clause = IF v.do = "return" THEN "validation" ELSE ""]
  /\ UNCHANGED storeVars
  /\ UNCHANGED <<procVars, calls_made>>

\* lines 318-328
Capture(t) ==
  /\ call[t].pc = "capture"
  /\ call' = [call EXCEPT ![t].pc = "redirect",
               ![t].old_stdout = sys_stdout,
               ![t].old_stderr = sys_stderr,
               ![t].captured_output = BufferOf(t, calls_made[t]),
               ![t].result = Envelope(FALSE, <<>>, <<>>, FALSE)]
  /\ buffers' = [buffers EXCEPT ![BufferOf(t, calls_made[t])] =
                   [text |-> <<>>, open |-> TRUE]]
  /\ UNCHANGED storeVars
  /\ UNCHANGED <<sys_stdout, sys_stderr, sigalrm_handler, alarm, rlimit_as,
                 module_attrs, sys_path, tools_available, calls_made>>

\* lines 331-333
Redirect(t) ==
  /\ call[t].pc = "redirect"
  /\ sys_stdout' = call[t].captured_output
  /\ sys_stderr' = call[t].captured_output
  /\ call' = [call EXCEPT ![t].pc = "globals"]
  /\ UNCHANGED storeVars
  /\ UNCHANGED <<buffers, sigalrm_handler, alarm, rlimit_as, module_attrs,
                 sys_path, tools_available, calls_made>>

\* lines 335-339, with create_execution_globals (lines 182-221)
BuildGlobals(t) ==
  /\ call[t].pc = "globals"
  /\ sys_path' = PathWithTools(sys_path, ToolsPath)
  /\ call' = [call EXCEPT ![t].pc = "install",
               ![t].exec_globals = create_execution_globals(tools_available),
               ![t].exec_locals = {}]
  /\ UNCHANGED storeVars
  /\ UNCHANGED <<sys_stdout, sys_stderr, buffers, sigalrm_handler, alarm,
                 rlimit_as, module_attrs, tools_available, calls_made>>

\* line 342 entering timeout_handler: line 161.  signal.signal raises
\* ValueError in a thread that is not the main thread.
InstallHandler(t) ==
  /\ call[t].pc = "install"
  /\ IF t = MainThread
     THEN /\ sigalrm_handler' = SignalHandler(t, call[t].timeout)
          /\ call' = [call EXCEPT ![t].pc = "arm",
                       ![t].old_handler = sigalrm_handler]
     ELSE /\ call' = [call EXCEPT ![t].pc = "except",
                       ![t].exc = Exc("ValueError",
                          <<"signal only works in main thread ",
                            "of the main interpreter">>)]
          /\ UNCHANGED sigalrm_handler
  /\ UNCHANGED storeVars
  /\ UNCHANGED <<sys_stdout, sys_stderr, buffers, alarm, rlimit_as,
                 module_attrs, sys_path, tools_available, calls_made>>

\* line 162.  signal.alarm raises TypeError for a float, outside the try of
\* timeout_handler, so lines 168-169 do not run for it.
ArmAlarm(t) ==
  /\ call[t].pc = "arm"
  /\ IF call[t].timeout.isInt
     THEN /\ alarm' = AlarmOf(call[t].timeout.val)
          /\ call' = [call EXCEPT ![t].pc = "exec"]
     ELSE /\ call' = [call EXCEPT ![t].pc = "except",
                       ![t].exc = Exc("TypeError",
                          <<"'float' object cannot be interpreted ",
                            "as an integer">>)]
          /\ UNCHANGED alarm
  /\ UNCHANGED storeVars
  /\ UNCHANGED <<sys_stdout, sys_stderr, buffers, sigalrm_handler, rlimit_as,
                 module_attrs, sys_path, tools_available, calls_made>>

\* the SyntaxError compiling the text raises: its lineno, its msg and its
\* offset (the column); the line that does not parse follows the statements
\* and is taken to be x = = 1, whose second = is at column 5
SyntaxErrorOf(code) ==
  Exc("SyntaxError",
      <<ToString(Len(code.stmts) + 1), "invalid syntax", "5">>)

\* line 343: exec compiles the text first; a text that does not parse
\* raises SyntaxError before any statement runs
Compile(t) ==
  /\ call[t].pc = "exec"
  /\ IF call[t].code.parses
     THEN call' = [call EXCEPT ![t].pc = "run", ![t].ip = 1]
     ELSE call' = [call EXCEPT ![t].pc = "cancel",
                    ![t].exc = SyntaxErrorOf(call[t].code)]
  /\ UNCHANGED storeVars
  /\ UNCHANGED <<procVars, calls_made>>

\* the state a statement of thread t works on
Machine(t) ==
  [globals |-> call[t].exec_globals, locals |-> call[t].exec_locals,
   fbody |-> call[t].fbody, attrs |-> module_attrs, emit |-> <<>>,
   exc |-> NoExc]

\* line 343: the snippet's next statement.  print writes to whatever
\* sys.stdout names; writing to a closed StringIO raises ValueError.
RunStatement(t) ==
  /\ call[t].pc = "run"
  /\ LET s == call[t].code.stmts[call[t].ip]
         r == ExecStmt(Machine(t), s, tools_available)
         closed == r.emit # <<>> /\ sys_stdout \in BufferIds
                     /\ ~buffers[sys_stdout].open
         e == IF closed /\ ~Swallows(s, Exc("ValueError", <<>>))
              THEN Exc("ValueError", <<"I/O operation on closed file.">>)
              ELSE r.exc
         last == call[t].ip = Len(call[t].code.stmts)
     IN
     /\ s.op # "loop"
     /\ buffers' = IF r.emit # <<>> /\ sys_stdout \in BufferIds /\ ~closed
                   THEN [buffers EXCEPT ![sys_stdout].text = @ \o r.emit]
                   ELSE buffers
     /\ module_attrs' = r.attrs
     /\ call' = [call EXCEPT
          ![t].exec_locals = r.locals,
          ![t].fbody = r.fbody,
          ![t].exc = e,
          ![t].emitted = IF closed THEN @ ELSE @ \o r.emit,
          ![t].executed = @ + 1,
          ![t].rejected =
             IF s.op = "import" /\ s.arg[1] \notin ALLOWED_IMPORTS
             THEN @ \cup {Dotted(s.arg)} ELSE @,
          ![t].ip = IF e = NoExc /\ ~last THEN @ + 1 ELSE @,
          ![t].pc = IF e = NoExc /\ ~last THEN "run" ELSE "cancel"]
  /\ UNCHANGED storeVars
  /\ UNCHANGED <<sys_stdout, sys_stderr, sigalrm_handler, alarm, rlimit_as,
                 sys_path, tools_available, calls_made>>

\* line 168, the finally of timeout_handler
CancelAlarm(t) ==
  /\ call[t].pc = "cancel"
  /\ alarm' = 0
  /\ call' = [call EXCEPT ![t].pc = "restore"]
  /\ UNCHANGED storeVars
  /\ UNCHANGED <<sys_stdout, sys_stderr, buffers, sigalrm_handler, rlimit_as,
                 module_attrs, sys_path, tools_available, calls_made>>

\* line 169, then line 345 or the except clauses
RestoreHandler(t) ==
  /\ call[t].pc = "restore"
  /\ sigalrm_handler' = call[t].old_handler
  /\ call' = [call EXCEPT ![t].pc =
                IF call[t].exc = NoExc THEN "success" ELSE "except"]
  /\ UNCHANGED storeVars
  /\ UNCHANGED <<sys_stdout, sys_stderr, buffers, alarm, rlimit_as,
                 module_attrs, sys_path, tools_available, calls_made>>

\* line 345
SetSuccess(t) ==
  /\ call[t].pc = "success"
  /\ call' = [call EXCEPT ![t].pc = "finally",
               ![t].result.success = TRUE,
               ![t].clause = "success"]
  /\ UNCHANGED storeVars
  /\ UNCHANGED <<procVars, calls_made>>

\* lines 347-360: the clause that takes the exception sets the error; an
\* exception no clause takes stays raised
Except(t) ==
  /\ call[t].pc = "except"
  /\ LET c == ExceptClause(call[t].exc) IN
     call' = [call EXCEPT ![t].pc = "finally",
               ![t].clause = c,
               ![t].result.error = ErrorText(call[t].exc),
               ![t].exc = IF c = "" THEN @ ELSE NoExc]
  /\ UNCHANGED storeVars
  /\ UNCHANGED <<procVars, calls_made>>

\* FinallyRestore without line 365
FinallyRestore_StdoutOnly(t) ==
  /\ call[t].pc = "finally"
  /\ sys_stdout' = call[t].old_stdout
  /\ call' = [call EXCEPT ![t].pc = "output"]
  /\ UNCHANGED storeVars
  /\ UNCHANGED <<sys_stderr, buffers, sigalrm_handler, alarm, rlimit_as,
                 module_attrs, sys_path, tools_available, calls_made>>

\* lines 362-365
FinallyRestore(t) ==
  /\ call[t].pc = "finally"
  /\ sys_stdout' = call[t].old_stdout
  /\ sys_stderr' = call[t].old_stderr
  /\ call' = [call EXCEPT ![t].pc = "output"]
  /\ UNCHANGED storeVars
  /\ UNCHANGED <<buffers, sigalrm_handler, alarm, rlimit_as, module_attrs,
                 sys_path, tools_available, calls_made>>

\* FinallyOutput with lines 367-375 run on success only
FinallyOutput_OnSuccessOnly(t) ==
  /\ call[t].pc = "output"
  /\ LET text == IF call[t].result.success
                 THEN buffers[call[t].captured_output].text ELSE <<>>
         o == Truncate(text, call[t].max_output) IN
     call' = [call EXCEPT
          ![t].pc = IF call[t].exc = NoExc THEN "done" ELSE "raised",
          ![t].result.output = o.output,
          ![t].result.truncated = o.truncated,
          ![t].captured = text]
  /\ buffers' = [buffers EXCEPT ![call[t].captured_output] = NoBuffer]
  /\ UNCHANGED storeVars
  /\ UNCHANGED <<sys_stdout, sys_stderr, sigalrm_handler, alarm, rlimit_as,
                 module_attrs, sys_path, tools_available, calls_made>>

\* lines 367-378: the output is cut, the buffer closed, and the result
\* returned, or the exception no clause took raised to the caller
FinallyOutput(t) ==
  /\ call[t].pc = "output"
  /\ LET o == Truncate(buffers[call[t].captured_output].text,
                       call[t].max_output) IN
     call' = [call EXCEPT
          ![t].pc = IF call[t].exc = NoExc THEN "done" ELSE "raised",
          ![t].result.output = o.output,
          ![t].result.truncated = o.truncated,
          ![t].captured = buffers[call[t].captured_output].text]
  /\ buffers' = [buffers EXCEPT ![call[t].captured_output] = NoBuffer]
  /\ UNCHANGED storeVars
  /\ UNCHANGED <<sys_stdout, sys_stderr, sigalrm_handler, alarm, rlimit_as,
                 module_attrs, sys_path, tools_available, calls_made>>

\* the caller has the result (or the exception) and goes on
Return(t) ==
  /\ call[t].pc \in {"done", "raised"}
  /\ call' = [call EXCEPT ![t] = IdleCall]
  /\ UNCHANGED storeVars
  /\ UNCHANGED <<procVars, calls_made>>

(***************************************************************************)
(* The clock and the alarm signal.                                         *)
(***************************************************************************)
\* a second passes and the alarm stays pending
Tick ==
  /\ alarm \in 2..MaxTimeout
  /\ alarm' = alarm - 1
  /\ UNCHANGED storeVars
  /\ UNCHANGED <<sys_stdout, sys_stderr, buffers, sigalrm_handler, rlimit_as,
                 module_attrs, sys_path, tools_available, call, calls_made>>

\* where the main thread goes when TimeoutError is raised in it:
\* in the snippet, a guarded statement may take it (caught is TRUE);
\* in the finally of timeout_handler, before line 168, it leaves the
\* finally at once
Interrupted(c, exc, caught) ==
  CASE c.pc = "run" /\ caught ->
         [c EXCEPT !.ip = IF c.ip = Len(c.code.stmts) THEN @ ELSE @ + 1,
                   !.pc = IF c.ip = Len(c.code.stmts) THEN "cancel" ELSE "run",
                   !.executed = IF c.code.stmts[c.ip].op = "loop"
                                THEN @ + 1 ELSE @]
    [] c.pc = "run" /\ ~caught ->
         [c EXCEPT !.exc = exc, !.pc = "cancel",
                   !.executed = IF c.code.stmts[c.ip].op = "loop"
                                THEN @ + 1 ELSE @]
    [] c.pc = "exec" -> [c EXCEPT !.exc = exc, !.pc = "cancel"]
    [] c.pc = "cancel" -> [c EXCEPT !.exc = exc, !.pc = "except"]
    [] OTHER -> c

\* the last second passes: SIGALRM is delivered and signal_handler
\* (lines 157-158) raises TimeoutError in the main thread
AlarmFires ==
  /\ alarm = 1
  /\ alarm' = 0
  /\ sigalrm_handler.kind = "signal_handler"
  /\ call[MainThread].pc \in {"exec", "run", "cancel"}
  /\ \E caught \in BOOLEAN :
       /\ caught =>
            /\ call[MainThread].pc = "run"
            /\ Swallows(call[MainThread].code.stmts[call[MainThread].ip],
                        TimeoutErrorOf(sigalrm_handler.seconds))
       /\ call' = [call EXCEPT
            ![MainThread] =
               [Interrupted(call[MainThread],
                            TimeoutErrorOf(sigalrm_handler.seconds), caught)
                  EXCEPT !.fired_at = call[MainThread].pc]]
  /\ UNCHANGED storeVars
  /\ UNCHANGED <<sys_stdout, sys_stderr, buffers, sigalrm_handler, rlimit_as,
                 module_attrs, sys_path, tools_available, calls_made>>

(***************************************************************************)
(* A single-threaded host: the main thread makes its calls one after the   *)
(* other.                                                                  *)
(***************************************************************************)
Step(t) ==
  \/ Validate(t)
  \/ Capture(t)
  \/ Redirect(t)
  \/ BuildGlobals(t)
  \/ InstallHandler(t)
  \/ ArmAlarm(t)
  \/ Compile(t)
  \/ RunStatement(t)
  \/ CancelAlarm(t)
  \/ RestoreHandler(t)
  \/ SetSuccess(t)
  \/ Except(t)
  \/ FinallyRestore(t)
  \/ FinallyOutput(t)
  \/ Return(t)

Next ==
  \/ Call(MainThread)
  \/ Step(MainThread)
  \/ Tick
  \/ AlarmFires

Spec == Init /\ [][Next]_vars

(***************************************************************************)
(* The skill store and the workspace, one operation at a time.             *)
(***************************************************************************)
SaveSkill(requests) ==
  /\ \E r \in requests :
       LET res == save_skill(workspace_fs, r) IN
         /\ workspace_fs' = res.fs
         /\ skill_op' = OpRecord("save_skill", r.name, r, res, workspace_fs)
  /\ UNCHANGED <<procVars, call, calls_made, datetime_now, saving>>

GetSkill(names) ==
  /\ \E name \in names :
       LET res == get_skill(workspace_fs, name) IN
         skill_op' = OpRecord("get_skill", name, NoValue, res, workspace_fs)
  /\ UNCHANGED <<procVars, call, calls_made, datetime_now, saving,
                 workspace_fs>>

ListSkills ==
  /\ skill_op' = OpRecord("list_skills", <<>>, NoValue,
                          list_skills(workspace_fs), workspace_fs)
  /\ UNCHANGED <<procVars, call, calls_made, datetime_now, saving,
                 workspace_fs>>

RunSkill(requests) ==
  /\ \E r \in requests :
       LET res == run_skill(workspace_fs, r.name, r.function, r.kwargs,
                            tools_available) IN
         /\ skill_op' = OpRecord("run_skill", r.name, r, res, workspace_fs)
         /\ sys_path' = IF res.value.prepared
                        THEN PathWithTools(sys_path, ToolsPath)
                        ELSE sys_path
  /\ UNCHANGED <<sys_stdout, sys_stderr, buffers, sigalrm_handler, alarm,
                 rlimit_as, module_attrs, tools_available, call, calls_made,
                 workspace_fs, datetime_now, saving>>

DeleteSkill(names) ==
  /\ \E name \in names :
       LET items == iterdir(workspace_fs, skill_dir(name))
           files == { i \in items : is_file(workspace_fs, i) }
       IN \E unlinked \in (IF files = items THEN {files} ELSE SUBSET files) :
            LET res == delete_skill(workspace_fs, name, unlinked) IN
              /\ workspace_fs' = res.fs
              /\ skill_op' = OpRecord("delete_skill", name, NoValue, res,
                                      workspace_fs)
  /\ UNCHANGED <<procVars, call, calls_made, datetime_now, saving>>

UpdateSkill(requests) ==
  /\ \E u \in requests :
       /\ VersionBelow(workspace_fs, u.name, MaxVersion)
       /\ LET res == update_skill(workspace_fs, u) IN
            /\ workspace_fs' = res.fs
            /\ skill_op' = OpRecord("update_skill", u.name, u, res,
                                    workspace_fs)
  /\ UNCHANGED <<procVars, call, calls_made, datetime_now, saving>>

\* the tool modules are installed where the skill store runs
SkillInit == Init /\ tools_available

\* the life cycle of the skills of a store used by one caller at a time
SkillNext ==
  \/ SaveSkill(LifecycleSaves)
  \/ GetSkill(LifecycleNames)
  \/ ListSkills
  \/ RunSkill(LifecycleRuns)
  \/ DeleteSkill(LifecycleNames)
  \/ UpdateSkill(LifecycleUpdates)
SkillSpec == SkillInit /\ [][SkillNext]_vars

\* one skill, saved and updated in every way
RevisionNext ==
  \/ SaveSkill(RevisionSaves)
  \/ GetSkill({Name_a})
  \/ UpdateSkill(RevisionUpdates)
RevisionSpec == SkillInit /\ [][RevisionNext]_vars

\* one skill, saved with code of every shape and run
RunNext ==
  \/ SaveSkill(RunSaves)
  \/ GetSkill({Name_a})
  \/ RunSkill(RunRequests)
RunSpec == SkillInit /\ [][RunNext]_vars

\* the requests that fail: names and codes that are refused, a third name
\* for a store of two, a version that is no number, updates of an absent
\* skill and with code that is refused
FailureSaves ==
  { BaseRequest(n) : n \in ValidNames \cup {<<"T", "e", "s", "t">>} }
  \cup { [BaseRequest(Name_a) EXCEPT !.code = c] : c \in InvalidCodes }
  \cup { [BaseRequest(Name_a) EXCEPT !.version = Version_beta] }
FailureUpdates ==
  { NothingGiven(n) : n \in {Name_a, Name_b} }
  \cup { [NothingGiven(Name_a) EXCEPT !.code = Some(c)] :
            c \in {Code_unparsable, Code_no_function, Code_block} }
FailureNames == {Name_a, Name_b}
FailureNext ==
  \/ SaveSkill(FailureSaves)
  \/ UpdateSkill(FailureUpdates)
  \/ DeleteSkill(FailureNames)
FailureSpec == SkillInit /\ [][FailureNext]_vars

(***************************************************************************)
(* save_skill step by step (skills.py lines 223-291), for callers whose    *)
(* calls interleave: nothing in the store orders the steps of two calls.   *)
(***************************************************************************)
NextStep(c, pc) ==
  /\ saving' = [saving EXCEPT ![c].pc = pc]
  /\ UNCHANGED <<procVars, call, calls_made, skill_op, datetime_now>>

\* lines 223-237: the name, the number of skills and the code are checked
BeginSave(c, requests) ==
  /\ saving[c].pc = "idle"
  /\ \E r \in requests :
       LET bad_name == _validate_skill_name(r.name)
           existing == list_skills(workspace_fs)
           validation == _validate_code(r.code)
           refused ==
             \/ bad_name # NoExc
             \/ existing.exc # NoExc
             \/ /\ Len(existing.value) >= MAX_SKILLS
                /\ r.name \notin Range(existing.value)
             \/ ~validation.valid
             \/ validation.functions = <<>>
       IN saving' = [saving EXCEPT
                       ![c] = [pc |-> IF refused THEN "raised" ELSE "mkdir",
                               r |-> r,
                               functions |-> validation.functions]]
  /\ UNCHANGED <<procVars, call, calls_made, workspace_fs, skill_op,
                 datetime_now>>

\* lines 240-241: skill_path.mkdir(parents=True, exist_ok=True)
MakeSkillDirectory(c) ==
  /\ saving[c].pc = "mkdir"
  /\ LET made == mkdir(workspace_fs, skill_dir(saving[c].r.name))
     IN /\ workspace_fs' = made.fs
        /\ NextStep(c, IF made.exc # NoExc THEN "raised"
                       ELSE "implementation")

\* lines 244-245: impl_path.write_text(code)
WriteImplementation(c) ==
  /\ saving[c].pc = "implementation"
  /\ LET r == saving[c].r
         impl == write_text(workspace_fs,
                            skill_dir(r.name) \o <<implementation_py>>,
                            r.code)
     IN /\ workspace_fs' = impl.fs
        /\ NextStep(c, IF impl.exc # NoExc THEN "raised" ELSE "metadata")

\* lines 248-260: the metadata is built and written
WriteMetadata(c) ==
  /\ saving[c].pc = "metadata"
  /\ LET r == saving[c].r
         parameters == IF r.parameters = None THEN <<>> ELSE r.parameters[1]
         metadata == Metadata(r.name, r.description, parameters, r.returns,
                              saving[c].functions, r.version)
         meta == write_text(workspace_fs,
                            skill_dir(r.name) \o <<metadata_json>>,
                            json_dumps(metadata))
     IN /\ workspace_fs' = meta.fs
        /\ NextStep(c, IF meta.exc # NoExc THEN "raised"
                       ELSE "documentation")

\* lines 263-291: SKILL.md is generated and written, and the call returns
WriteDocumentation(c) ==
  /\ saving[c].pc = "documentation"
  /\ LET r == saving[c].r
         parameters == IF r.parameters = None THEN <<>> ELSE r.parameters[1]
         md == write_text(workspace_fs, skill_dir(r.name) \o <<SKILL_md>>,
                          SKILL_MD_TEMPLATE(r.name, r.description, parameters,
                                            r.returns, r.example, r.version))
     IN /\ workspace_fs' = md.fs
        /\ NextStep(c, IF md.exc # NoExc THEN "raised" ELSE "done")

\* two saves of one name that differ in every field, and one that is
\* refused
RacingSaves ==
  { BaseRequest(Name_a),
    [FullRequest EXCEPT !.code = Code_block, !.version = Version_2_1],
    [BaseRequest(Name_a) EXCEPT !.code = Code_unparsable] }
RacingNext ==
  \E c \in Callers :
    \/ BeginSave(c, RacingSaves)
    \/ MakeSkillDirectory(c)
    \/ WriteImplementation(c)
    \/ WriteMetadata(c)
    \/ WriteDocumentation(c)
RacingSpec == SkillInit /\ [][RacingNext]_vars

\* time passes between two operations
TimePasses ==
  /\ datetime_now < MaxClock
  /\ datetime_now' = datetime_now + 1
  /\ UNCHANGED <<procVars, call, calls_made, workspace_fs, skill_op, saving>>

\* one skill, saved and updated as time passes
TimestampSaves == { BaseRequest(Name_a), FullRequest }
TimestampUpdates ==
  { NothingGiven(Name_a),
    [NothingGiven(Name_a) EXCEPT !.description = Some("d3")] }
TimestampNext ==
  \/ SaveSkill(TimestampSaves)
  \/ UpdateSkill(TimestampUpdates)
  \/ GetSkill({Name_a})
  \/ TimePasses
TimestampSpec == SkillInit /\ [][TimestampNext]_vars

WriteFileIn(paths, contents) ==
  /\ \E filepath \in paths, content \in contents, overwrite \in BOOLEAN :
       LET res == write_file(workspace_fs, filepath, content, overwrite) IN
         /\ workspace_fs' = res.fs
         /\ skill_op' = OpRecord("write_file", filepath,
                                 [content |-> content,
                                  overwrite |-> overwrite],
                                 res, workspace_fs)
  /\ UNCHANGED <<procVars, call, calls_made, datetime_now, saving>>

WriteFile == WriteFileIn(WorkspacePaths, WorkspaceContents)

CreateDirectoryIn(dirs) ==
  /\ \E dirpath \in dirs :
       LET res == create_directory(workspace_fs, dirpath) IN
         /\ workspace_fs' = res.fs
         /\ skill_op' = OpRecord("create_directory", dirpath, NoValue, res,
                                 workspace_fs)
  /\ UNCHANGED <<procVars, call, calls_made, datetime_now, saving>>

CreateDirectory == CreateDirectoryIn(WorkspaceDirs)

\* the skill store and the workspace capability on the one workspace root
WorkspaceNext ==
  \/ SaveSkill(WorkspaceSaves)
  \/ GetSkill(WorkspaceNames)
  \/ ListSkills
  \/ DeleteSkill(WorkspaceNames)
  \/ WriteFile
  \/ CreateDirectory
WorkspaceSpec == SkillInit /\ [][WorkspaceNext]_vars

(***************************************************************************)
(* The workspace capability alone, on a host that has files outside the    *)
(* workspace root.                                                         *)
(***************************************************************************)
ReadFile(paths) ==
  /\ \E filepath \in paths :
       skill_op' = OpRecord("read_file", filepath, NoValue,
                            read_file(workspace_fs, filepath), workspace_fs)
  /\ UNCHANGED <<procVars, call, calls_made, datetime_now, saving,
                 workspace_fs>>

DeleteFile(paths) ==
  /\ \E filepath \in paths :
       LET res == delete_file(workspace_fs, filepath) IN
         /\ workspace_fs' = res.fs
         /\ skill_op' = OpRecord("delete_file", filepath, NoValue, res,
                                 workspace_fs)
  /\ UNCHANGED <<procVars, call, calls_made, datetime_now, saving>>

ListFiles(dirs) ==
  /\ \E directory \in dirs, recursive \in BOOLEAN :
       skill_op' = OpRecord("list_files", directory,
                            [recursive |-> recursive],
                            list_files(workspace_fs, directory, recursive),
                            workspace_fs)
  /\ UNCHANGED <<procVars, call, calls_made, datetime_now, saving,
                 workspace_fs>>

FileExists(paths) ==
  /\ \E filepath \in paths :
       skill_op' = OpRecord("file_exists", filepath, NoValue,
                            file_exists(workspace_fs, filepath),
                            workspace_fs)
  /\ UNCHANGED <<procVars, call, calls_made, datetime_now, saving,
                 workspace_fs>>

SaveCheckpoint(names, datas) ==
  /\ \E name \in names, data \in datas :
       LET res == save_checkpoint(workspace_fs, name, data) IN
         /\ workspace_fs' = res.fs
         /\ skill_op' = OpRecord("save_checkpoint", name, [data |-> data],
                                 res, workspace_fs)
  /\ UNCHANGED <<procVars, call, calls_made, datetime_now, saving>>

LoadCheckpoint(names) ==
  /\ \E name \in names :
       skill_op' = OpRecord("load_checkpoint", name, NoValue,
                            load_checkpoint(workspace_fs, name),
                            workspace_fs)
  /\ UNCHANGED <<procVars, call, calls_made, datetime_now, saving,
                 workspace_fs>>

ListCheckpoints ==
  /\ skill_op' = OpRecord("list_checkpoints", <<>>, NoValue,
                          list_checkpoints(workspace_fs), workspace_fs)
  /\ UNCHANGED <<procVars, call, calls_made, datetime_now, saving,
                 workspace_fs>>

DeleteCheckpoint(names) ==
  /\ \E name \in names :
       LET res == delete_checkpoint(workspace_fs, name) IN
         /\ workspace_fs' = res.fs
         /\ skill_op' = OpRecord("delete_checkpoint", name, NoValue, res,
                                 workspace_fs)
  /\ UNCHANGED <<procVars, call, calls_made, datetime_now, saving>>

\* the files of the host outside the workspace root: /n.txt and /n.exe
Path_exe_outside == <<".", ".", "/", "n", ".", "e", "x", "e">>
Path_absolute == <<"/", "n", ".", "t", "x", "t">>
Path_inside == <<"/">> \o WORKSPACE_BASE[1] \o <<"/">> \o Path_notes
Path_sibling ==
  <<".", ".", "/">> \o WORKSPACE_BASE[1] \o <<"2", "/">> \o Path_notes
HostFiles ==
  (<<Path_notes>> :> File(Code_unparsable))
  @@ (<<Path_exe>> :> File(EmptyText))
HostWorkspace == HostFiles @@ EmptyWorkspace

\* a str of n characters as checkpoint data
Data(n) == [str_len |-> n]

ScopedPaths ==
  { Path_notes, Path_outside, Path_absolute, Path_inside, Path_sibling,
    Path_exe, Path_exe_outside }
ScopedDirs == { <<>>, <<"d">>, <<".", ".">>, <<"/">>, <<".", ".", "/", "o">> }
ScopedContents == {EmptyText, Code_f_g}
\* checkpoints/k.json, and checkpoints/../../k.json outside the root
ScopedCheckpoints == { <<"k">>, <<".", ".", "/", ".", ".", "/", "k">> }

ScopedInit == InitOn(HostWorkspace) /\ tools_available
ScopedNext ==
  \/ WriteFileIn(ScopedPaths, ScopedContents)
  \/ ReadFile(ScopedPaths)
  \/ DeleteFile(ScopedPaths)
  \/ ListFiles(ScopedDirs)
  \/ FileExists(ScopedPaths)
  \/ CreateDirectoryIn(ScopedDirs)
  \/ SaveCheckpoint(ScopedCheckpoints, {Data(0)})
  \/ LoadCheckpoint(ScopedCheckpoints)
  \/ ListCheckpoints
  \/ DeleteCheckpoint(ScopedCheckpoints)
ScopedSpec == ScopedInit /\ [][ScopedNext]_vars

\* the writes that fill the workspace: files at and over the size limit,
\* a checkpoint over it, and a skill with a description over it
Path_deep == <<"d", "/", "m", ".", "t", "x", "t">>
QuotaPaths == {Path_notes, Path_deep}
QuotaContents ==
  { EmptyText,
    Text("\n", <<>>, FALSE, FALSE, MAX_FILE_SIZE),
    Text("\n", <<>>, FALSE, FALSE, MAX_FILE_SIZE + 1) }
QuotaData == { Data(0), Data(MAX_FILE_SIZE - 1) }
QuotaSaves ==
  { BaseRequest(Name_a),
    [BaseRequest(Name_a) EXCEPT !.description = Description_huge] }
QuotaNext ==
  \/ WriteFileIn(QuotaPaths, QuotaContents)
  \/ SaveCheckpoint({<<"k">>}, QuotaData)
  \/ DeleteFile(QuotaPaths)
  \/ SaveSkill(QuotaSaves)
QuotaSpec == SkillInit /\ [][QuotaNext]_vars

(***************************************************************************)
(* A multi-threaded host: the main thread and a worker thread each make a  *)
(* call of execute_code, and the two calls interleave.                     *)
(***************************************************************************)
ConcurrentCodes == { PyStr(0, <<SPrint>>), PyStr(0, <<SLoop>>) }
ConcurrentTimeouts == { PyNum(TRUE, n) : n \in 1..MaxTimeout }

CallConcurrently(t) ==
  /\ call[t].pc = "idle"
  /\ calls_made[t] = 0
  /\ calls_made' = [calls_made EXCEPT ![t] = @ + 1]
  /\ \E code \in ConcurrentCodes, timeout \in ConcurrentTimeouts :
       call' = [call EXCEPT ![t] =
          [IdleCall EXCEPT !.pc = "validate", !.code = code,
                           !.timeout = timeout, !.max_output = MaxOutput,
                           !.stdout_at_call = sys_stdout,
                           !.stderr_at_call = sys_stderr,
                           !.handler_at_call = sigalrm_handler]]
  /\ UNCHANGED <<procVars, storeVars>>

ConcurrentNext ==
  \/ \E t \in Threads : CallConcurrently(t)
  \/ \E t \in Threads : Step(t)
  \/ Tick
  \/ AlarmFires
ConcurrentSpec == Init /\ [][ConcurrentNext]_vars


(***************************************************************************)
(* What a call would return in a process no earlier call has run in.       *)
(***************************************************************************)
\* the statements from the i-th on, run to the end or to the first
\* exception that is not caught, with no alarm going off
RECURSIVE RunAll(_, _, _, _)
RunAll(stmts, i, m, tools) ==
  IF i > Len(stmts) THEN m
  ELSE LET r == ExecStmt([m EXCEPT !.emit = <<>>], stmts[i], tools)
           n == [r EXCEPT !.emit = m.emit \o r.emit]
       IN IF r.exc # NoExc THEN n ELSE RunAll(stmts, i + 1, n, tools)

FreshMachine(tools) ==
  [globals |-> create_execution_globals(tools), locals |-> {}, fbody |-> "",
   attrs |-> {}, emit |-> <<>>, exc |-> NoExc]

\* the envelope of a call whose snippet parses and is not interrupted
FreshResult(code, max_output, tools) ==
  LET m == RunAll(code.stmts, 1, FreshMachine(tools), tools)
      o == Truncate(m.emit, max_output)
  IN Envelope(m.exc = NoExc, o.output, ErrorText(m.exc), o.truncated)

\* the snippet binds at its top level every name it uses and every name
\* its function's body refers to, imports allow-listed library modules
\* only, and neither raises nor loops
RECURSIVE SelfContained(_, _, _, _)
SelfContained(stmts, i, bound, fref) ==
  IF i > Len(stmts) THEN TRUE
  ELSE LET s == stmts[i] IN
       CASE s.op = "print" -> SelfContained(stmts, i + 1, bound, fref)
         [] s.op = "import" ->
              /\ s.arg[1] \in ALLOWED_IMPORTS \ SandboxTools
              /\ SelfContained(stmts, i + 1, bound \cup {s.arg[1]}, fref)
         [] s.op = "assign" ->
              SelfContained(stmts, i + 1, bound \cup {s.arg[1]}, fref)
         [] s.op = "def" ->
              SelfContained(stmts, i + 1, bound \cup {s.arg[1]}, s.arg[2])
         [] s.op = "call" ->
              /\ s.arg[1] \in bound
              /\ fref \in bound
              /\ SelfContained(stmts, i + 1, bound, fref)
         [] s.op = "printname" ->
              /\ s.arg[1] \in bound
              /\ SelfContained(stmts, i + 1, bound, fref)
         [] OTHER -> FALSE

\* the call of thread t has returned a result envelope
Returned(t) == call[t].pc = "done"
\* the call of thread t has ended by raising to its caller
Raised(t) == call[t].pc = "raised"
\* the snippet of the call ran (the request passed validation)
Attempted(t) == call[t].clause \notin {"", "validation"}
\* the request is one the data model allows: timeout > 0, max_output > 0
ValidBounds(t) ==
  /\ call[t].timeout.isInt
  /\ call[t].timeout.val > 0
  /\ call[t].max_output > 0

(***************************************************************************)
(* Claims.                                                                 *)
(***************************************************************************)

\* C1: execute_code always returns a result envelope and never raises to
\* its caller, whatever the value of code and however the snippet ends.
C1_NeverRaises == \A t \in Threads : ~Raised(t)

\* C2: every snippet that imports only allow-listed modules, raises no
\* error of its own and finishes within the timeout returns success=true
\* and error="", snippets that define and call top-level functions whose
\* bodies refer to names bound at the snippet's top level included.
C2_SelfContainedSucceeds ==
  \A t \in Threads :
    ( /\ Returned(t)
      /\ Attempted(t)
      /\ call[t].code.parses
      /\ SelfContained(call[t].code.stmts, 1, {}, "")
      /\ ValidBounds(t)
      /\ call[t].fired_at = "" )
    => (call[t].result.success /\ call[t].result.error = <<>>)

\* C3: a snippet that executes an import of a module M outside the
\* allow-list returns success=false and an error text that contains
\* "not allowed" and M, whatever the snippet does around the import.
C3_DisallowedImportFails ==
  \A t \in Threads :
    ( /\ Returned(t)
      /\ call[t].rejected # {}
      /\ ValidBounds(t)
      /\ call[t].fired_at = "" )
    => /\ ~call[t].result.success
       /\ "not allowed" \in Range(call[t].result.error)
       /\ \A M \in call[t].rejected : M \in Range(call[t].result.error)

\* C4: a snippet still running when the timeout elapses is interrupted
\* and the call returns the Timeout outcome; and the Timeout outcome is
\* returned only when the alarm of the call went off, never for an error
\* the snippet raised itself.
C4_TimeoutIffElapsed ==
  \A t \in Threads :
    (Returned(t) /\ ValidBounds(t)) =>
      /\ call[t].fired_at = "run" =>
           /\ call[t].clause = "TimeoutError"
           /\ ~call[t].result.success
           /\ call[t].result.error = TimeoutErrorOf(call[t].timeout).msg
      /\ call[t].clause = "TimeoutError" => call[t].fired_at # ""

\* C5: in a single-threaded host, once execute_code has returned or has
\* raised, sys.stdout and sys.stderr are the objects they were when the
\* call was made.
C5_StreamsRestored ==
  \A t \in Threads :
    (Returned(t) \/ Raised(t))
    => /\ sys_stdout = call[t].stdout_at_call
       /\ sys_stderr = call[t].stderr_at_call

\* a call that redirected the streams, timed out in the snippet, and has
\* returned with the streams back
C5_Witness ==
  /\ Returned(MainThread)
  /\ call[MainThread].fired_at = "run"
  /\ call[MainThread].clause = "TimeoutError"
  /\ sys_stdout = OrigStdout
  /\ sys_stderr = OrigStderr

\* C6: for every outcome, a captured text longer than max_output is
\* returned as its first max_output characters followed by the truncation
\* marker, with truncated=true; a captured text of at most max_output
\* characters is returned unchanged, with truncated=false.  (max_output is
\* a size: the statement is about max_output >= 0.)
C6_TruncationExact ==
  \A t \in Threads :
    (Returned(t) /\ call[t].max_output >= 0)
    => IF Len(call[t].captured) > call[t].max_output
       THEN /\ call[t].result.output =
                 SubSeq(call[t].captured, 1, call[t].max_output)
                   \o <<TruncationMarker(call[t].max_output)>>
            /\ call[t].result.truncated
       ELSE /\ call[t].result.output = call[t].captured
            /\ ~call[t].result.truncated

\* a failed attempt whose captured text was cut to a max_output > 0
C6_Witness ==
  /\ Returned(MainThread)
  /\ call[MainThread].clause = "Exception"
  /\ call[MainThread].max_output > 0
  /\ Len(call[MainThread].captured) > call[MainThread].max_output
  /\ call[MainThread].result.truncated

\* C7: when an attempt ends in Timeout or in any other failure raised
\* during the run, the text the snippet wrote before that is in the
\* returned output, up to the max_output cap.
C7_OutputKeptOnFailure ==
  \A t \in Threads :
    (Returned(t) /\ Attempted(t) /\ ~call[t].result.success)
    => IF Len(call[t].emitted) <= call[t].max_output
       THEN call[t].result.output = call[t].emitted
       ELSE /\ Len(call[t].result.output) >= call[t].max_output
            /\ SubSeq(call[t].result.output, 1, call[t].max_output)
                 = SubSeq(call[t].emitted, 1, call[t].max_output)

\* a call that timed out after its snippet had written text, all of which
\* is returned
C7_Witness ==
  /\ Returned(MainThread)
  /\ call[MainThread].clause = "TimeoutError"
  /\ call[MainThread].fired_at = "run"
  /\ call[MainThread].emitted # <<>>
  /\ call[MainThread].result.output = call[MainThread].emitted

\* C8: every execution attempt runs with both bounds installed: while the
\* snippet runs the memory ceiling is set, and the alarm was armed.
C8_BothBoundsInstalled ==
  \A t \in Threads :
    call[t].pc = "run"
    => /\ rlimit_as.limited
       /\ rlimit_as.bytes = MAX_MEMORY_BYTES
       /\ (alarm > 0 \/ call[t].fired_at # "")

\* C9: a request with timeout <= 0, max_output <= 0 or an empty snippet
\* fails validation: it returns success=false and runs no statement.
C9_InvalidRequestRejected ==
  \A t \in Threads :
    ( \/ (call[t].timeout.isInt /\ call[t].timeout.val <= 0)
      \/ call[t].max_output <= 0
      \/ (call[t].code.type = "str" /\ StripsToEmpty(call[t].code)) )
    => /\ call[t].executed = 0
       /\ Returned(t) => ~call[t].result.success

\* C10: the result of a call is the result the same call has in a process
\* in which no earlier call ran.
C10_NoCrossCallLeak ==
  \A t \in Threads :
    ( /\ Returned(t)
      /\ Attempted(t)
      /\ call[t].code.parses
      /\ ValidBounds(t)
      /\ call[t].fired_at = "" )
    => call[t].result =
         FreshResult(call[t].code, call[t].max_output, tools_available)


(***************************************************************************)
(* Properties of the skill store, of the workspace it shares and of calls  *)
(* that interleave.                                                        *)
(***************************************************************************)
\* the callables a text declares, in the order they are written
RECURSIVE Declared(_)
Declared(body) ==
  IF body = <<>> THEN <<>>
  ELSE (IF Head(body).kind = "def" THEN <<Head(body).name>> ELSE <<>>)
       \o Declared(Head(body).body) \o Declared(Tail(body))

\* the last operation was op and it returned
Succeeded(op) == skill_op.op = op /\ skill_op.exc = NoExc
\* the text get_skill reads from the implementation file there was before
\* the last operation
CodeBefore == read_text(skill_op.before.impl)
\* an operation the restricted namespace of execute_code refuses
Refused(effect) ==
  \/ effect[1] = "import" /\ effect[2] \notin ALLOWED_IMPORTS
  \/ effect[1] = "call" /\ effect[2] \in BLOCKED_BUILTINS

\* C11: run_skill runs the code of a skill in the restricted namespace of
\* execute_code: the run performs no import of a module outside the
\* allow-list and no call of a blocked builtin, and it raises wherever the
\* same code raises under the restricted builtins and the gated import.
C11_SkillRunsRestricted ==
  (skill_op.op = "run_skill" /\ skill_op.value.executed) =>
    LET restricted ==
          exec_skill(CodeBefore.body, ExecState(<<>>, <<>>, NoExc),
                     SafeBuiltins, TRUE, tools_available)
    IN /\ \A i \in 1..Len(skill_op.value.effects) :
            ~Refused(skill_op.value.effects[i])
       /\ restricted.exc # NoExc => skill_op.exc # NoExc

\* C12: after save_skill(name, code, ...) returns, get_skill(name) returns
\* the code that was saved.
C12_SaveThenGetIdentical ==
  Succeeded("save_skill") =>
    LET got == get_skill(workspace_fs, skill_op.name)
    IN got.exc = NoExc /\ got.value.code = skill_op.args.code

\* C13: update_skill of a present skill returns, and the version it leaves
\* is the version there was with the last component raised by 1 and the
\* other components as they were.
C13_UpdateRaisesTrailing ==
  (skill_op.op = "update_skill" /\ skill_op.before.meta # NoContent) =>
    LET old == split(skill_op.before.meta.value.version, ".")
        got == get_skill(workspace_fs, skill_op.name)
        new == split(got.value.version, ".")
    IN /\ skill_op.exc = NoExc
       /\ got.exc = NoExc
       /\ Len(new) = Len(old)
       /\ \A i \in 1..(Len(old) - 1) : new[i] = old[i]
       /\ int(old[Len(old)]).ok
       /\ int(new[Len(new)]).ok
       /\ int(new[Len(new)]).val = int(old[Len(old)]).val + 1

\* C14: after update_skill returns, every field it was not given has, in
\* metadata.json, in the implementation and in SKILL.md, the value it had
\* before the update.
C14_UpdateKeepsUnsupplied ==
  Succeeded("update_skill") =>
    LET u == skill_op.args
        b == skill_op.before
        a == SkillFiles(workspace_fs, skill_op.name)
    IN /\ u.code = None =>
            /\ read_text(a.impl) = read_text(b.impl)
            /\ a.meta.value.functions = b.meta.value.functions
       /\ u.description = None =>
            /\ a.meta.value.description = b.meta.value.description
            /\ a.md.description = b.md.description
       /\ u.parameters = None =>
            /\ a.meta.value.parameters = b.meta.value.parameters
            /\ a.md.parameters = b.md.parameters
            /\ a.md.params_example = b.md.params_example
       /\ u.returns = None =>
            /\ a.meta.value.returns = b.meta.value.returns
            /\ a.md.returns = b.md.returns
       /\ u.example = None => a.md.example = b.md.example

\* a skill of that name is neither fetched nor listed
Absent(fs, name) ==
  /\ get_skill(fs, name).exc.kind = "FileNotFoundError"
  /\ name \notin Range(Listed(fs))

\* C15: update_skill, delete_skill, get_skill and run_skill of a name with
\* no skill raise FileNotFoundError and change nothing; after delete_skill
\* returns, the name is neither fetched nor listed; a name comes to have a
\* skill directory by save_skill of that name only; and save_skill of a
\* name that has a skill leaves the version it was given, not a raised one.
C15_SkillLifecycle ==
  /\ (/\ skill_op.op \in {"update_skill", "delete_skill", "get_skill",
                          "run_skill"}
      /\ _validate_skill_name(skill_op.name) = NoExc
      /\ ~skill_op.before.dir)
       => /\ skill_op.exc.kind = "FileNotFoundError"
          /\ ~skill_op.changed
  /\ Succeeded("delete_skill") => Absent(workspace_fs, skill_op.name)
  /\ \A n \in SkillDirs(workspace_fs) \ skill_op.dirs_before :
       skill_op.op = "save_skill" /\ skill_op.name = n
  /\ \A n \in ValidNames :
       ~exists(workspace_fs, skill_dir(n)) => Absent(workspace_fs, n)
  /\ (Succeeded("save_skill") /\ skill_op.before.dir)
       => get_skill(workspace_fs, skill_op.name).value.version
            = skill_op.args.version

\* C15 has its case: a skill that update_skill had raised to another
\* version was saved again
C15_Witness ==
  /\ Succeeded("save_skill")
  /\ skill_op.before.meta # NoContent
  /\ skill_op.before.meta.value.version # skill_op.args.version

\* the name is one save_skill is to refuse: empty, a character that is no
\* letter, digit, underscore or hyphen, over 50 characters, or a reserved
\* word in any letter case
RefusedName(name) ==
  \/ name = <<>>
  \/ \E i \in 1..Len(name) : name[i] \notin (Alphanumeric \cup {"_", "-"})
  \/ Len(name) > 50
  \/ lower(name) \in RESERVED

\* the code is one save_skill is to refuse: empty or blank, over the size
\* limit, not parsable, or declaring no callable
RefusedCode(code) ==
  \/ code.len = 0
  \/ code.blank
  \/ code.len > MAX_SKILL_SIZE
  \/ ~code.parses
  \/ Declared(code.body) = <<>>

\* C16: save_skill of a refused name or of refused code raises ValueError
\* and changes no file.
C16_InvalidSaveRefused ==
  (/\ skill_op.op = "save_skill"
   /\ RefusedName(skill_op.name) \/ RefusedCode(skill_op.args.code))
    => /\ skill_op.exc.kind = "ValueError"
       /\ ~skill_op.changed
       /\ SkillDirs(workspace_fs) = skill_op.dirs_before

\* C16 has its case: a reserved word in mixed case was refused
C16_Witness ==
  /\ skill_op.op = "save_skill"
  /\ skill_op.name # lower(skill_op.name)
  /\ lower(skill_op.name) \in RESERVED
  /\ skill_op.exc.kind = "ValueError"

\* the message of the skill limit
LimitReached(exc) ==
  /\ exc.kind = "ValueError"
  /\ exc.msg # <<>>
  /\ exc.msg[1] = "Maximum number of skills ("

\* the names list_skills returned before the last operation
NamesBefore == Range(skill_op.listed_before)

\* C17: from an empty store the number of skills never exceeds MAX_SKILLS;
\* save_skill of a new name with MAX_SKILLS skills present raises the limit
\* error and changes nothing; save_skill and update_skill of a present name
\* with MAX_SKILLS skills present are not refused by the limit, and such a
\* save_skill of valid code returns.
C17_SkillLimit ==
  /\ Cardinality(SkillDirs(workspace_fs)) <= MAX_SKILLS
  /\ Len(Listed(workspace_fs)) <= MAX_SKILLS
  /\ (/\ skill_op.op = "save_skill"
      /\ _validate_skill_name(skill_op.name) = NoExc
      /\ Len(skill_op.listed_before) >= MAX_SKILLS
      /\ skill_op.name \notin NamesBefore)
       => /\ LimitReached(skill_op.exc)
          /\ ~skill_op.changed
  /\ (/\ skill_op.op \in {"save_skill", "update_skill"}
      /\ Len(skill_op.listed_before) >= MAX_SKILLS
      /\ skill_op.name \in NamesBefore)
       => /\ ~LimitReached(skill_op.exc)
          /\ (/\ skill_op.op = "save_skill"
              /\ skill_op.args = BaseRequest(skill_op.name))
               => skill_op.exc = NoExc

\* C17 has its case: with MAX_SKILLS skills present a new name was refused
\* while a present skill had been revised
C17_Witness ==
  /\ skill_op.op = "save_skill"
  /\ Len(skill_op.listed_before) = MAX_SKILLS
  /\ skill_op.name \notin NamesBefore
  /\ LimitReached(skill_op.exc)
  /\ \E n \in NamesBefore :
       get_skill(workspace_fs, n).value.version # DefaultVersion

\* the callables the code declares take no argument
NoParameters(body) ==
  \A i \in 1..Len(walk(body)) : walk(body)[i].params = {}

\* C18: run_skill without a function invokes the callable the code declares
\* first, in declaration order, blocks and nested definitions included; with
\* a declared function it invokes that one; with an undeclared one it raises
\* ValueError naming the declared ones and executes none of the code.
C18_RunSelectsDeclared ==
  (/\ skill_op.op = "run_skill"
   /\ skill_op.before.meta # NoContent
   /\ skill_op.args.kwargs = {}
   /\ NoParameters(CodeBefore.body))
    => LET declared == Declared(CodeBefore.body)
           function == skill_op.args.function
       IN IF function = None
          THEN /\ skill_op.exc = NoExc
               /\ skill_op.value.invoked = declared[1]
          ELSE IF function[1] \in Range(declared)
          THEN /\ skill_op.exc = NoExc
               /\ skill_op.value.invoked = function[1]
          ELSE /\ skill_op.exc.kind = "ValueError"
               /\ ~skill_op.value.executed
               /\ LET msg == skill_op.exc.msg
                      available == join_words(declared, ", ")
                  IN /\ Len(msg) >= Len(available)
                     /\ SubSeq(msg, Len(msg) - Len(available) + 1, Len(msg))
                          = available

\* the skill name is one list_skills returns or get_skill fetches
SkillExists(fs, name) ==
  \/ name \in Range(Listed(fs))
  \/ get_skill(fs, name).exc = NoExc

\* C19: every skill that list_skills returns or get_skill fetches was put
\* there by a completed save_skill: its name passes _validate_skill_name,
\* its three files are there and its code passes _validate_code with a
\* callable; write_file and create_directory of the workspace included.
C19_SkillsComeFromSave ==
  \A name \in SkillDirs(workspace_fs) :
    SkillExists(workspace_fs, name) =>
      LET files == SkillFiles(workspace_fs, name)
          validation == _validate_code(read_text(files.impl))
      IN /\ _validate_skill_name(name) = NoExc
         /\ files.impl # NoContent
         /\ files.meta # NoContent
         /\ files.md # NoContent
         /\ validation.valid
         /\ validation.functions # <<>>

\* what signal.signal raises in a thread that is not the main thread
SignalOffMainThread ==
  Exc("ValueError",
      <<"signal only works in main thread ", "of the main interpreter">>)

\* C20: of two execute_code calls that interleave in one process, each has
\* its own timeout: a call in any thread installs its handler, the handler
\* and the alarm pending while its snippet runs are its own, and a call
\* that is interrupted is interrupted for its own timeout.
C20_TimersIndependent ==
  \A t \in Threads :
    /\ call[t].exc # SignalOffMainThread
    /\ call[t].result.error # ErrorText(SignalOffMainThread)
    /\ call[t].pc \in {"arm", "exec", "run"} =>
         sigalrm_handler = SignalHandler(t, call[t].timeout)
    /\ (call[t].pc \in {"exec", "run"} /\ alarm # 0) =>
         alarm <= AlarmOf(call[t].timeout.val)
    /\ call[t].exc.kind = "TimeoutError" =>
         call[t].exc = TimeoutErrorOf(call[t].timeout)

\* C21: of two execute_code calls that overlap in one process, each
\* returns as its output the text its own snippet wrote, and once both have
\* returned sys.stdout and sys.stderr are the streams of the process, not
\* the buffer of either call.
C21_OutputsIsolated ==
  /\ \A t \in Threads :
       Returned(t) => call[t].captured = call[t].emitted
  /\ (\A t \in Threads : Returned(t)) =>
       /\ sys_stdout = OrigStdout
       /\ sys_stderr = OrigStderr

\* C25: for a snippet that does not parse, execute_code returns
\* success=false with an error that holds the line, the column and the
\* message of the parser, and no statement of the snippet has run.
C25_ParseFailureReported ==
  \A t \in Threads :
    (/\ Returned(t)
     /\ ValidBounds(t)
     /\ Attempted(t)
     /\ ~call[t].code.parses
     /\ call[t].fired_at = "") =>
      LET e == SyntaxErrorOf(call[t].code)
          error == call[t].result.error
      IN /\ ~call[t].result.success
         /\ call[t].executed = 0
         /\ call[t].emitted = <<>>
         /\ call[t].result.output = <<>>
         /\ \A part \in Range(e.msg) : part \in Range(error)

\* C26: building the namespace of a call (create_execution_globals) runs
\* no statement of the snippet and leaves the state of the process as it
\* was, sys.path included.
C26_NamespaceBuildIsPure ==
  [][\A t \in Threads :
       BuildGlobals(t) =>
         /\ UNCHANGED procVars
         /\ call'[t].executed = call[t].executed
         /\ call'[t].emitted = call[t].emitted]_vars

\* C29: once execute_code has returned, no alarm is pending and the
\* SIGALRM handler is the one that was installed when the call was made,
\* also where the alarm went off after the snippet had ended and before
\* the alarm was cancelled.
C29_TimerReleased ==
  \A t \in Threads :
    (Returned(t) /\ ValidBounds(t)) =>
      /\ alarm = 0
      /\ sigalrm_handler = call[t].handler_at_call

\* the callables a text declares at its top level: the def statements of
\* the module body, those inside a block of the module body included, and
\* neither the functions nested in a function nor the methods of a class
RECURSIVE TopLevel(_)
TopLevel(body) ==
  IF body = <<>> THEN <<>>
  ELSE (CASE Head(body).kind = "def" -> <<Head(body).name>>
          [] Head(body).kind = "if" -> TopLevel(Head(body).body)
          [] OTHER -> <<>>)
       \o TopLevel(Tail(body))

\* C27: the callable names a save returns and persists are exactly the
\* callables declared at the top level of the code, and every name the
\* save returned is found and invoked by run_skill(name, function=it).
C27_ReturnedCallablesTopLevel ==
  Succeeded("save_skill") =>
    LET functions == skill_op.value.functions
        stored == get_skill(workspace_fs, skill_op.name).value.functions
        body == skill_op.args.code.body
    IN /\ Range(functions) = Range(TopLevel(body))
       /\ stored = functions
       /\ \A f \in Range(functions) :
            run_skill(workspace_fs, skill_op.name, Some(f), {},
                      tools_available).value.invoked = f


\* the trailing component of a version is no number
TrailingNotNumber(version) ==
  LET parts == split(version, ".") IN ~int(parts[Len(parts)]).ok

\* the last operation failed in one of these ways: a save refused for its
\* name, its code or the number of skills; an update of an absent name,
\* with refused code, or of a stored version that ends in no number; a
\* delete of an absent name
FailedOperation ==
  \/ /\ skill_op.op = "save_skill"
     /\ \/ RefusedName(skill_op.name)
        \/ RefusedCode(skill_op.args.code)
        \/ LimitReached(skill_op.exc)
  \/ /\ skill_op.op = "update_skill"
     /\ \/ ~skill_op.before.dir
        \/ skill_op.args.code # None /\ RefusedCode(skill_op.args.code[1])
        \/ /\ skill_op.before.meta # NoContent
           /\ TrailingNotNumber(skill_op.before.meta.value.version)
  \/ /\ skill_op.op = "delete_skill"
     /\ ~skill_op.before.dir

\* C28: a save refused for its name, its code or the skill count, an
\* update that fails for an absent name, refused new code or a stored
\* version ending in no number, and a delete of an absent name all raise
\* and leave every file and directory beneath the root as it was.
C28_FailureChangesNothing ==
  FailedOperation =>
    /\ skill_op.exc # NoExc
    /\ ~skill_op.changed
    /\ SkillDirs(workspace_fs) = skill_op.dirs_before
    /\ SkillFiles(workspace_fs, skill_op.name) = skill_op.before

\* C28 has its case: the update of a present skill with code that does not
\* parse failed
C28_Witness ==
  /\ skill_op.op = "update_skill"
  /\ skill_op.before.meta # NoContent
  /\ skill_op.args.code = Some(Code_unparsable)
  /\ skill_op.exc.kind = "ValueError"


\* the metadata of the skill the last operation was about, now and before
MetadataNow == get_skill(workspace_fs, skill_op.name).value.metadata
MetadataBefore == skill_op.before.meta.value

\* C30: update_skill leaves the created timestamp of the metadata as the
\* save that created the skill wrote it and sets the updated timestamp to
\* the time of the update; created is never later than updated.
C30_CreatedIsFixed ==
  /\ (Succeeded("update_skill") /\ skill_op.before.meta # NoContent)
       => /\ MetadataNow.created = MetadataBefore.created
          /\ MetadataNow.updated = skill_op.at
  /\ \A n \in Range(Listed(workspace_fs)) :
       LET m == get_skill(workspace_fs, n).value.metadata
       IN m.created <= m.updated


\* the record of a skill that one save_skill call running alone writes
RecordOf(r) == SkillFiles(save_skill(EmptyWorkspace, r).fs, r.name)

\* C22: when two save_skill calls on one name have interleaved and both
\* returned, the implementation, the metadata and the documentation there
\* are the complete record of one of the two calls.
C22_SavesNeverMix ==
  (/\ \A c \in Callers : saving[c].pc = "done"
   /\ \A c, d \in Callers : saving[c].r.name = saving[d].r.name)
    => \E c \in Callers :
         SkillFiles(workspace_fs, saving[c].r.name) = RecordOf(saving[c].r)


\* the path lies beneath the workspace root, or is the root
Beneath(p) ==
  /\ Len(p) >= Len(WORKSPACE_BASE)
  /\ SubSeq(p, 1, Len(WORKSPACE_BASE)) = WORKSPACE_BASE

\* where a path given to a workspace operation leads: an absolute path
\* from the root of the file system, a relative one from the workspace root
LeadsTo(filepath) ==
  resolve(PathParts(filepath),
          IF filepath # <<>> /\ filepath[1] = "/" THEN <<>>
          ELSE WORKSPACE_BASE)

\* the path the last workspace operation was given
GivenPath ==
  IF skill_op.op \in {"save_checkpoint", "load_checkpoint",
                      "delete_checkpoint"}
  THEN checkpoint_path(skill_op.name)
  ELSE skill_op.name

GivenPathOps ==
  { "read_file", "write_file", "delete_file", "list_files", "file_exists",
    "create_directory", "save_checkpoint", "load_checkpoint",
    "delete_checkpoint" }

\* the last operation was given a path that leads outside the root
GivenOutside ==
  skill_op.op \in GivenPathOps /\ ~Beneath(LeadsTo(GivenPath))

\* what is outside the root is what the host had there
HostUntouched ==
  \A p \in DOMAIN workspace_fs \cup DOMAIN HostWorkspace :
    ~Beneath(p) => /\ p \in DOMAIN workspace_fs
                   /\ p \in DOMAIN HostWorkspace
                   /\ workspace_fs[p] = HostWorkspace[p]

\* C23: a workspace operation given a path that leads outside the
\* workspace root changes nothing and returns nothing it read, and raises
\* PermissionError (file_exists returns False); and what is outside the
\* root is at all times what the host had there.
C23_OutsideRootDenied ==
  /\ GivenOutside
       => /\ ~skill_op.changed
          /\ IF skill_op.op = "file_exists"
             THEN skill_op.exc = NoExc /\ skill_op.value = FALSE
             ELSE /\ skill_op.exc.kind = "PermissionError"
                  /\ skill_op.value = NoValue
  /\ HostUntouched

\* C23 as the code has it: a workspace operation given a path that leads
\* outside the root changes nothing and returns nothing it read;
\* file_exists returns False, write_file of a name with an extension that
\* is not allowed raises the ValueError of the extension, and every other
\* operation raises PermissionError; what is outside the root stays what
\* the host had there.
C23_OutsideRootRefused ==
  /\ GivenOutside
       => /\ ~skill_op.changed
          /\ IF skill_op.op = "file_exists"
             THEN skill_op.exc = NoExc /\ skill_op.value = FALSE
             ELSE IF /\ skill_op.op = "write_file"
                     /\ lower(suffix(skill_op.name)) # <<>>
                     /\ lower(suffix(skill_op.name)) \notin ALLOWED_EXTENSIONS
             THEN /\ skill_op.exc.kind = "ValueError"
                  /\ skill_op.value = NoValue
             ELSE /\ skill_op.exc.kind = "PermissionError"
                  /\ skill_op.value = NoValue
  /\ HostUntouched

\* C23 has its case: the workspace holds a file, and the delete of a file
\* of the host by an absolute path was refused
C23_Witness ==
  /\ skill_op.op = "delete_file"
  /\ skill_op.name = Path_absolute
  /\ is_file(workspace_fs, LeadsTo(Path_absolute))
  /\ is_file(workspace_fs, LeadsTo(Path_notes))
  /\ skill_op.exc.kind = "PermissionError"


\* the files beneath the workspace root
FilesBeneath(fs) == { p \in DOMAIN fs : Beneath(p) /\ is_file(fs, p) }

\* the size of what the last write_file or save_checkpoint was to write
SizeGiven ==
  IF skill_op.op = "write_file" THEN st_size(skill_op.args.content)
  ELSE st_size(json_dumps(skill_op.args.data))

\* C24: from an empty workspace, after any writes, checkpoints, deletes and
\* skill saves, the files beneath the root total at most
\* MAX_WORKSPACE_SIZE and none is larger than MAX_FILE_SIZE; a write of
\* more than MAX_FILE_SIZE fails and changes nothing.
C24_QuotasHold ==
  /\ SumSizes(workspace_fs, FilesBeneath(workspace_fs)) <= MAX_WORKSPACE_SIZE
  /\ \A p \in FilesBeneath(workspace_fs) :
       st_size(workspace_fs[p].content) <= MAX_FILE_SIZE
  /\ (/\ skill_op.op \in {"write_file", "save_checkpoint"}
      /\ SizeGiven > MAX_FILE_SIZE)
       => skill_op.exc # NoExc /\ ~skill_op.changed

====
